---- MODULE Spec2Model ----
(***************************************************************************)
(* Verification model of the MQElectric-OA data pipeline.                  *)
(*                                                                         *)
(* Part 1: the geolocation cache and resolver (geolocation_service.py).    *)
(*                                                                         *)
(* Conventions                                                             *)
(*   - A Python string is a sequence of one-character strings.             *)
(*   - A nullable Python value is None (the empty tuple) or Some(v), the   *)
(*     one-element tuple holding v.                                        *)
(*   - Time (time.time(), datetime.now()) is one clock `now`, counted in   *)
(*     tenths of a second; confidence scores are counted in tenths.        *)
(***************************************************************************)
EXTENDS Integers, Sequences, FiniteSets, TLC

\* ------------------------------------------------------------------------
\* Bounds of the model
\* ------------------------------------------------------------------------
MaxCalls == 2          \* geocode_address invocations in a run
MaxLen == 3            \* length of the list given to geocode_addresses_bulk
EpochStart == 20       \* value of the clock when the process starts
MaxRows == 3           \* cells in the raw Customers column
MaxSerial == 45        \* largest of the small whole serial dates
MaxTransactions == 3   \* rows of the Transactions sheet
MaxCustomers == 2      \* cells of the Customers column of a workbook

\* ------------------------------------------------------------------------
\* Program constants
\* ------------------------------------------------------------------------
MinRequestInterval == 11       \* self.min_request_interval = 1.1
NominatimConfidence == 8       \* "confidence_score": 0.8
GoogleConfidence == 9          \* "confidence_score": 0.9
FailedConfidence == 0          \* "confidence_score": 0.0
NanosecondRangeTenths == 1067519  \* 2^63 ns = 106751.99 days (Timestamp, Timedelta)
FillValue == 0                 \* .fillna(0)
QuantileScale == 20            \* quantile(0.5), (0.8), (0.95) in twentieths
AddressHistoryKeys == 2        \* {"address_history_df": ..., "summary": ...}

None == << >>
Some(v) == << v >>

\* ------------------------------------------------------------------------
\* Strings
\* ------------------------------------------------------------------------
Whitespace == {" ", "\t"}

LowerChar(c) ==
  CASE c = "A" -> "a"
    [] c = "K" -> "k"
    [] c = "Q" -> "q"
    [] c = "S" -> "s"
    [] c = "U" -> "u"
    [] c = "N" -> "n"
    [] c = "I" -> "i"
    [] c = "F" -> "f"
    [] c = "T" -> "t"
    [] c = "Y" -> "y"
    [] OTHER -> c

\* str.lower()
Lower(s) == [i \in 1..Len(s) |-> LowerChar(s[i])]

RECURSIVE LStrip(_)
LStrip(s) == IF s # << >> /\ Head(s) \in Whitespace THEN LStrip(Tail(s)) ELSE s

RECURSIVE RStrip(_)
RStrip(s) ==
  IF s # << >> /\ s[Len(s)] \in Whitespace
    THEN RStrip(SubSeq(s, 1, Len(s) - 1))
    ELSE s

\* str.strip()
Strip(s) == RStrip(LStrip(s))

\* " ".join(s.split()): every run of whitespace becomes one blank and the
\* leading and trailing runs disappear
RECURSIVE JoinSplit(_, _)
JoinSplit(s, pending) ==
  IF s = << >> THEN << >>
  ELSE IF Head(s) \in Whitespace THEN JoinSplit(Tail(s), TRUE)
  ELSE (IF pending THEN << " " >> ELSE << >>) \o << Head(s) >>
         \o JoinSplit(Tail(s), FALSE)

CollapseWhitespace(s) == JoinSplit(LStrip(s), FALSE)

\* sub in s
Contains(s, sub) ==
  \E i \in 0..(Len(s) - Len(sub)) : SubSeq(s, i + 1, i + Len(sub)) = sub

AustraliaLower == << "a", "u", "s", "t", "r", "a", "l", "i", "a" >>
AusLower == << "a", "u", "s" >>
AustraliaSuffix == << ",", " ", "A", "u", "s", "t", "r", "a", "l", "i", "a" >>

\* not address or pd.isna(address)
IsEmptyAddressNullOnly(address) == address = None

IsEmptyAddress(address) == address = None \/ address = Some(<< >>)

\* GeolocationService.clean_address
clean_address(address) ==
  IF IsEmptyAddress(address) THEN << >>
  ELSE LET cleaned == CollapseWhitespace(Strip(address[1]))
       IN  IF ~Contains(Lower(cleaned), AustraliaLower)
              /\ ~Contains(Lower(cleaned), AusLower)
             THEN cleaned \o AustraliaSuffix
             ELSE cleaned

\* hashlib.md5(...).hexdigest(): an injective digest of its argument
Md5(s) == << "md5", s >>

\* GeolocationService.get_address_hash
get_address_hash_case_sensitive(address) == Md5(Strip(address))

get_address_hash(address) == Md5(Strip(Lower(address)))

\* ------------------------------------------------------------------------
\* Inputs
\* ------------------------------------------------------------------------
\* The addresses callers pass: null, empty, two spellings of one place that
\* differ in case and whitespace, one that names the country, and another
\* place.
AddressPool ==
  { None,
    Some(<< >>),
    Some(<< "k" >>),
    Some(<< " ", "K", "\t" >>),
    Some(<< "q", " ", " ", "a", "u", "s" >>) }

\* What a provider client can do with one request.
NoLocation == [kind |-> "none", latitude |-> 0, longitude |-> 0, address |-> ""]
Raises == [kind |-> "raise", latitude |-> 0, longitude |-> 0, address |-> ""]
Locations ==
  { [kind |-> "location", latitude |-> -33, longitude |-> 151, address |-> "Sydney"],
    [kind |-> "location", latitude |-> 0, longitude |-> 0, address |-> "Origin"] }
ProviderOutcomes == {NoLocation, Raises} \cup Locations

\* Duration of one network round trip, and the time time.sleep() may add to
\* the requested duration.
RoundTrips == {2}
Oversleeps == {0, 1}
IdlePeriods == {15}

\* ------------------------------------------------------------------------
\* The cache table geolocation_cache
\* ------------------------------------------------------------------------
RowsWithHash(table, h) == {r \in table : r.address_hash = h}

\* GeolocationService.get_cached_location: the row cursor.fetchone() yields
\* and the table after the UPDATE of last_used_timestamp
CachedRow(table, address) ==
  CHOOSE r \in RowsWithHash(table, get_address_hash(address)) : TRUE

get_cached_location_result_never(table, address) == None

get_cached_location_result(table, address) ==
  IF RowsWithHash(table, get_address_hash(address)) = {} THEN None
  ELSE LET r == CachedRow(table, address)
       IN  Some([latitude |-> r.latitude,
                 longitude |-> r.longitude,
                 normalized_address |-> r.normalized_address,
                 provider |-> r.provider,
                 confidence_score |-> r.confidence_score,
                 cached |-> TRUE])

get_cached_location_table_stale(table, address, time) == table

get_cached_location_table_recreated(table, address, time) ==
  LET h == get_address_hash(address)
  IN  {IF r.address_hash = h
         THEN [r EXCEPT !.last_used_timestamp = time, !.created_timestamp = time]
         ELSE r
         : r \in table}

get_cached_location_table(table, address, time) ==
  LET h == get_address_hash(address)
  IN  {IF r.address_hash = h THEN [r EXCEPT !.last_used_timestamp = time] ELSE r
         : r \in table}

\* GeolocationService.cache_location: INSERT OR REPLACE on the UNIQUE
\* column address_hash
cache_location_swapped(table, address, location_data, time) ==
  LET h == get_address_hash(address)
      row == [address_hash |-> h,
              original_address |-> address,
              normalized_address |-> location_data.normalized_address,
              latitude |-> location_data.longitude,
              longitude |-> location_data.latitude,
              provider |-> location_data.provider,
              confidence_score |-> location_data.confidence_score,
              created_timestamp |-> time,
              last_used_timestamp |-> time]
  IN  (table \ RowsWithHash(table, h)) \cup {row}

cache_location_dropped(table, address, location_data, time) == table

cache_location(table, address, location_data, time) ==
  LET h == get_address_hash(address)
      row == [address_hash |-> h,
              original_address |-> address,
              normalized_address |-> location_data.normalized_address,
              latitude |-> location_data.latitude,
              longitude |-> location_data.longitude,
              provider |-> location_data.provider,
              confidence_score |-> location_data.confidence_score,
              created_timestamp |-> time,
              last_used_timestamp |-> time]
  IN  (table \ RowsWithHash(table, h)) \cup {row}

\* ------------------------------------------------------------------------
\* The service object
\* ------------------------------------------------------------------------
\* GeolocationService.__init__
NewService(use_google_api, google_api_key) ==
  [use_google_api |-> use_google_api,
   google_api_key |-> google_api_key,
   has_google_geocoder |-> use_google_api /\ google_api_key,
   last_request_time |-> 0,
   min_request_interval |-> MinRequestInterval]

NoService ==
  [use_google_api |-> FALSE,
   google_api_key |-> FALSE,
   has_google_geocoder |-> FALSE,
   last_request_time |-> -1,
   min_request_interval |-> 0]

\* GeolocationService.respect_rate_limit: the time at which it returns, which
\* is also the value it stores in last_request_time
respect_rate_limit_no_sleep(self, current_time, oversleep) == current_time

respect_rate_limit(self, current_time, oversleep) ==
  LET time_since_last_request == current_time - self.last_request_time
  IN  IF time_since_last_request < self.min_request_interval
        THEN current_time
               + (self.min_request_interval - time_since_last_request)
               + oversleep
        ELSE current_time

\* The dictionary a provider method builds from a geopy location
ProviderResult(out, provider, confidence) ==
  [latitude |-> Some(out.latitude),
   longitude |-> Some(out.longitude),
   normalized_address |-> Some(out.address),
   provider |-> Some(provider),
   confidence_score |-> confidence,
   cached |-> FALSE]

\* One outbound request, as the call history records it
Request(provider, time, out) ==
  [provider |-> provider, time |-> time, answered |-> out.kind = "location",
   raised |-> out.kind = "raise"]

NotAsked(time) ==
  [result |-> None, requests |-> << >>, time |-> time, escaped |-> FALSE]

\* "except Exception" in geocode_with_google and "except (GeocoderTimedOut,
\* Exception)" in geocode_with_nominatim: the handler takes whatever the
\* provider client raises
HandlerCatchesNothing(out) == FALSE

HandlerCatches(out) == out.kind = "raise"

\* The exception of a provider client leaves the provider method
Escapes(out) == out.kind = "raise" /\ ~HandlerCatches(out)

\* GeolocationService.geocode_with_google: the requests sent, the result
\* (None when the provider gives nothing or raises) and the time afterwards
geocode_with_google(self, address, time, out, rtt) ==
  IF ~self.use_google_api \/ ~self.google_api_key
    THEN NotAsked(time)
    ELSE [result |-> IF out.kind = "location"
                       THEN Some(ProviderResult(out, "google", GoogleConfidence))
                       ELSE None,
          requests |-> << Request("google", time, out) >>,
          time |-> time + rtt,
          escaped |-> Escapes(out)]

\* GeolocationService.geocode_with_nominatim: the request leaves when
\* respect_rate_limit returns
geocode_with_nominatim_retry(self, address, time, out, rtt, oversleep) ==
  LET sent == respect_rate_limit(self, time, oversleep)
  IN  [result |-> IF out.kind = "location"
                    THEN Some(ProviderResult(out, "nominatim", NominatimConfidence))
                    ELSE None,
       requests |-> IF out.kind = "location"
                      THEN << Request("nominatim", sent, out) >>
                      ELSE << Request("nominatim", sent, out),
                              Request("nominatim", sent + rtt, out) >>,
       last_request_time |-> sent,
       time |-> sent + rtt,
       escaped |-> Escapes(out)]

geocode_with_nominatim(self, address, time, out, rtt, oversleep) ==
  LET sent == respect_rate_limit(self, time, oversleep)
  IN  [result |-> IF out.kind = "location"
                    THEN Some(ProviderResult(out, "nominatim", NominatimConfidence))
                    ELSE None,
       requests |-> << Request("nominatim", sent, out) >>,
       last_request_time |-> sent,
       time |-> sent + rtt,
       escaped |-> Escapes(out)]

\* The dictionary returned for an address that yields no coordinates
ErrorResult(address, error) ==
  [original_address |-> address,
   latitude |-> None,
   longitude |-> None,
   normalized_address |-> None,
   provider |-> None,
   confidence_score |-> FailedConfidence,
   cached |-> FALSE,
   error |-> Some(error)]

\* result["original_address"] = address on a dictionary without "error"
WithOriginal(result, address) ==
  [original_address |-> address,
   latitude |-> result.latitude,
   longitude |-> result.longitude,
   normalized_address |-> result.normalized_address,
   provider |-> result.provider,
   confidence_score |-> result.confidence_score,
   cached |-> result.cached,
   error |-> None]

\* geocode_address, "if not result:" before the fallback: the free provider
\* is asked when the paid one left no result
FallbackAlways(result) == TRUE

FallbackNeeded(result) == result = None

\* geocode_address, the providers in their order: the first result, the
\* requests sent, the service object and the clock afterwards
TryProviders(self, cleaned_address, time, gOut, nOut, rtt, oversleep) ==
  LET g == IF self.use_google_api
             THEN geocode_with_google(self, cleaned_address, time, gOut, rtt)
             ELSE NotAsked(time)
  IN  IF g.escaped
        THEN [result |-> None, requests |-> g.requests, self |-> self,
              time |-> g.time, escaped |-> TRUE]
      ELSE IF FallbackNeeded(g.result)
        THEN LET n == geocode_with_nominatim(self, cleaned_address, g.time,
                                             nOut, rtt, oversleep)
             IN  [result |-> n.result,
                  requests |-> g.requests \o n.requests,
                  self |-> [self EXCEPT !.last_request_time = n.last_request_time],
                  time |-> n.time,
                  escaped |-> n.escaped]
        ELSE [result |-> g.result, requests |-> g.requests, self |-> self,
              time |-> g.time, escaped |-> FALSE]

\* geocode_address, the table after "if not result: return {...}"
TableAfterFailureNegative(table, cleaned_address, time) ==
  cache_location(table, cleaned_address,
                 [latitude |-> None, longitude |-> None,
                  normalized_address |-> None, provider |-> None,
                  confidence_score |-> FailedConfidence],
                 time)

TableAfterFailure(table, cleaned_address, time) == table

\* GeolocationService.geocode_address, as a function of the state it reads
\* (the service object, the cache table, the clock) and of what the outside
\* world does during the call (the providers' answers gOut and nOut, the
\* round-trip time, the oversleep).  It yields the returned dictionary and
\* the state it leaves.  The provider methods are called outside any try
\* block: an exception that leaves one of them leaves geocode_address too
\* (raised), and then no dictionary is returned.
geocode_address(self, address, table, time, gOut, nOut, rtt, oversleep) ==
  IF IsEmptyAddress(address)
    THEN [result |-> ErrorResult(address, "Empty address"),
          table |-> table, self |-> self, time |-> time,
          requests |-> << >>, cache_read |-> FALSE, raised |-> FALSE]
  ELSE
    LET cleaned_address == clean_address(address)
        cached_result == get_cached_location_result(table, cleaned_address)
    IN  IF cached_result # None
          THEN [result |-> WithOriginal(cached_result[1], address),
                table |-> get_cached_location_table(table, cleaned_address, time),
                self |-> self, time |-> time,
                requests |-> << >>, cache_read |-> TRUE, raised |-> FALSE]
        ELSE
          LET p == TryProviders(self, cleaned_address, time, gOut, nOut, rtt,
                                oversleep)
          IN  IF p.escaped
                THEN [result |-> ErrorResult(address, ""),
                      table |-> table, self |-> p.self, time |-> p.time,
                      requests |-> p.requests, cache_read |-> TRUE,
                      raised |-> TRUE]
              ELSE IF p.result = None
                THEN [result |-> ErrorResult(address, "Geocoding failed"),
                      table |-> TableAfterFailure(table, cleaned_address, p.time),
                      self |-> p.self, time |-> p.time,
                      requests |-> p.requests, cache_read |-> TRUE,
                      raised |-> FALSE]
                ELSE [result |-> WithOriginal(p.result[1], address),
                      table |-> cache_location(table, cleaned_address,
                                               p.result[1], p.time),
                      self |-> p.self, time |-> p.time,
                      requests |-> p.requests, cache_read |-> TRUE,
                      raised |-> FALSE]

\* Everything one invocation of geocode_address can do, over all the
\* answers of the providers and all the timings
GeocodeOutcomes(self, address, table, time) ==
  LET asks == /\ ~IsEmptyAddress(address)
              /\ get_cached_location_result(table, clean_address(address)) = None
      paid == asks /\ self.use_google_api /\ self.google_api_key
  IN  {geocode_address(self, address, table, time, gOut, nOut, rtt, oversleep) :
         gOut \in IF paid THEN ProviderOutcomes ELSE {NoLocation},
         nOut \in IF asks THEN ProviderOutcomes ELSE {NoLocation},
         rtt \in RoundTrips,
         oversleep \in IF asks THEN Oversleeps ELSE {0}}

\* {result["original_address"]: result for result in results}: a later
\* result replaces an earlier one under the same key
DictKeyCleaned(result) == Some(clean_address(result.original_address))

DictKey(result) == result.original_address

address_to_result(results) ==
  [a \in {DictKey(results[k]) : k \in 1..Len(results)} |->
     results[CHOOSE k \in 1..Len(results) :
               /\ DictKey(results[k]) = a
               /\ \A m \in (k + 1)..Len(results) : DictKey(results[m]) # a]]

\* ------------------------------------------------------------------------
\* State
\* ------------------------------------------------------------------------
VARIABLES
  svc,        \* the GeolocationService object in use
  nInst,      \* GeolocationService objects constructed so far
  cache,      \* the rows of table geolocation_cache in geolocation_cache.db
  now,        \* the clock
  pc,         \* where the single thread is: "idle", "loop" or "expand"
  bulk,       \* the frame of the running (or last) geocode_addresses_bulk
  lastCall,   \* record of the latest geocode_address invocation
  prevCall,   \* record of the invocation before it
  freeLog,    \* the requests sent to the free provider, in order
  events,     \* callback and lookup events of the running (or last) bulk call
  nCalls,     \* geocode_address invocations so far
  rested,     \* an idle period has passed since the latest invocation
  dpc,        \* where the run of data_processing.py is
  raw_data,   \* parse_customer_data: the cells of the raw column
  row,        \* parse_customer_data: cells the loop has consumed
  customers,  \* parse_customer_data: the list `customers`
  customers_df,  \* parse_customer_data: the returned frame, None before
  excel_date, \* convert_excel_date: the argument
  converted,  \* convert_excel_date: the returned value
  transactions_df,  \* the frame of the Transactions sheet
  products_df,      \* the frame of the Products sheet
  address_history,  \* process_data: the address history, None before
  category_totals,  \* process_data: customer_category_pivot, None before
  top_spenders,     \* process_data: top_spenders_by_category, None before
  rankings,         \* process_data: customer_rankings, None before
  bundle,           \* process_data: the returned dictionary, None before
  kwargs,           \* the keyword arguments of the call of process_data
  validation        \* validate_excel_structure: the returned pair, None before

geoVars == << svc, nInst, cache, now, pc, bulk, lastCall, prevCall, freeLog,
              events, nCalls, rested >>

parserVars == << raw_data, row, customers, customers_df >>
dateVars == << excel_date, converted >>
frameVars == << transactions_df, products_df >>
analysisVars == << address_history, category_totals, top_spenders, rankings,
                  bundle >>

callVars == << kwargs, validation >>

dataVars == << dpc, parserVars, dateVars, frameVars, analysisVars, callVars >>

vars == << geoVars, dataVars >>

NoCall ==
  [valid |-> FALSE, inst |-> 0, address |-> None,
   result |-> ErrorResult(None, ""), requests |-> << >>,
   table_before |-> {}, table_after |-> {},
   self_before |-> NoService, self_after |-> NoService,
   started |-> 0, returned |-> 0, cache_read |-> FALSE, raised |-> FALSE]

CallRecord(address, r) ==
  [valid |-> TRUE, inst |-> nInst, address |-> address,
   result |-> r.result, requests |-> r.requests,
   table_before |-> cache, table_after |-> r.table,
   self_before |-> svc, self_after |-> r.self,
   started |-> now, returned |-> r.time, cache_read |-> r.cache_read,
   raised |-> r.raised]

NoBulk ==
  [done |-> FALSE, has_callback |-> FALSE,
   addresses |-> << >>, unique_addresses |-> << >>, i |-> 0,
   notified |-> FALSE, results |-> << >>, j |-> 0, final_results |-> << >>,
   raised |-> FALSE]

\* Sequences without repetition that enumerate a set: the orders in which
\* list(set(addresses)) can come out
Orderings(S) ==
  {q \in [1..Cardinality(S) -> S] : \A a, b \in 1..Cardinality(S) :
                                      a # b => q[a] # q[b]}

Range(q) == {q[k] : k \in 1..Len(q)}

\* list(set(addresses)): the distinct addresses, in any order
unique_lists_keep_duplicates(addresses) == {addresses}

unique_lists(addresses) == Orderings(Range(addresses))

\* The lists given to geocode_addresses_bulk
BulkPool == {None, Some(<< "k" >>), Some(<< " ", "K", "\t" >>)}

AddressLists == UNION {[1..n -> BulkPool] : n \in 0..MaxLen}

\* parse_customer_data is not running
ParserIdle ==
  /\ raw_data = << >>
  /\ row = 0
  /\ customers = << >>
  /\ customers_df = None

\* convert_excel_date is not running
DatesIdle ==
  /\ excel_date = [type |-> "NoneType", text |-> << >>,
                   num |-> [kind |-> "finite", tenths |-> 0]]
  /\ converted = [kind |-> "pending", tenths |-> 0]

\* No sheet has been read
FramesIdle ==
  /\ transactions_df = << >>
  /\ products_df = << >>

\* No analysis has run
AnalysesIdle ==
  /\ address_history = None
  /\ category_totals = None
  /\ top_spenders = None
  /\ rankings = None
  /\ bundle = None

\* No call from app.py or download.py is under way
CallIdle ==
  /\ kwargs = {}
  /\ validation = None

\* No function of data_processing.py is running
DataIdle ==
  /\ dpc = "idle"
  /\ ParserIdle
  /\ DatesIdle
  /\ FramesIdle
  /\ AnalysesIdle
  /\ CallIdle

GeoInit ==
  /\ svc = NoService
  /\ nInst = 0
  /\ cache = {}
  /\ now = EpochStart
  /\ pc = "idle"
  /\ bulk = NoBulk
  /\ lastCall = NoCall
  /\ prevCall = NoCall
  /\ freeLog = << >>
  /\ events = << >>
  /\ nCalls = 0
  /\ rested = FALSE

Init == GeoInit /\ DataIdle

\* ------------------------------------------------------------------------
\* Operations
\* ------------------------------------------------------------------------
\* geo_service = GeolocationService(use_google_api=..., google_api_key=...),
\* as add_geolocation_to_customers does at each call: the new object takes
\* the place of the one used before.  An object that is replaced before it
\* served a lookup is never observed, so only a used object is replaced.
Construct(use_google_api, google_api_key) ==
  /\ pc = "idle"
  /\ nCalls < MaxCalls
  /\ nInst = 0 \/ lastCall.inst = nInst
  /\ svc' = NewService(use_google_api, google_api_key)
  /\ nInst' = nInst + 1
  /\ UNCHANGED << cache, now, pc, bulk, lastCall, prevCall, freeLog, events,
                  nCalls, rested >>
  /\ UNCHANGED dataVars

\* Time passes while no call is running: one idle period between two
\* invocations
Tick(d) ==
  /\ pc = "idle"
  /\ nCalls < MaxCalls
  /\ ~rested
  /\ now' = now + d
  /\ rested' = TRUE
  /\ UNCHANGED << svc, nInst, cache, pc, bulk, lastCall, prevCall, freeLog,
                  events, nCalls >>
  /\ UNCHANGED dataVars

FreeRequests(requests) ==
  LET free == SelectSeq(requests, LAMBDA q : q.provider = "nominatim")
  IN  [k \in 1..Len(free) |-> [inst |-> nInst, time |-> free[k].time]]

\* The effect of one invocation self.geocode_address(address) on the
\* service, the cache, the clock and the call history
Invoke(address, r) ==
  /\ svc' = r.self
  /\ cache' = r.table
  /\ now' = r.time
  /\ prevCall' = lastCall
  /\ lastCall' = CallRecord(address, r)
  /\ freeLog' = freeLog \o FreeRequests(r.requests)
  /\ nCalls' = nCalls + 1
  /\ rested' = FALSE

\* A caller invokes geo_service.geocode_address(address)
Lookup(address) ==
  /\ pc = "idle"
  /\ nInst > 0
  /\ nCalls < MaxCalls
  /\ \E r \in GeocodeOutcomes(svc, address, cache, now) : Invoke(address, r)
  /\ UNCHANGED << nInst, pc, bulk, events >>
  /\ UNCHANGED dataVars

ProgressEventZeroBased(index, total, address) ==
  [kind |-> "progress", index |-> index - 1, total |-> total,
   address |-> address]

ProgressEvent(index, total, address) ==
  [kind |-> "progress", index |-> index, total |-> total, address |-> address]

LookupEvent(index, total, address) ==
  [kind |-> "lookup", index |-> index, total |-> total, address |-> address]

\* geocode_addresses_bulk, up to the loop: results = [],
\* unique_addresses = list(set(addresses))
BulkStart(addresses, unique_addresses, has_callback) ==
  /\ pc = "idle"
  /\ bulk = NoBulk
  /\ nInst > 0
  /\ unique_addresses \in unique_lists(addresses)
  /\ nCalls + Len(unique_addresses) <= MaxCalls
  /\ bulk' = [NoBulk EXCEPT !.addresses = addresses,
                            !.unique_addresses = unique_addresses,
                            !.has_callback = has_callback]
  /\ events' = << >>
  /\ pc' = "loop"
  /\ UNCHANGED << svc, nInst, cache, now, lastCall, prevCall, freeLog, nCalls,
                  rested >>
  /\ UNCHANGED dataVars

\* if progress_callback: progress_callback(i + 1, len(unique_addresses), address)
BulkProgress ==
  /\ pc = "loop"
  /\ bulk.i < Len(bulk.unique_addresses)
  /\ bulk.has_callback
  /\ ~bulk.notified
  /\ events' = Append(events,
                      ProgressEvent(bulk.i + 1, Len(bulk.unique_addresses),
                                    bulk.unique_addresses[bulk.i + 1]))
  /\ bulk' = [bulk EXCEPT !.notified = TRUE]
  /\ UNCHANGED << svc, nInst, cache, now, pc, lastCall, prevCall, freeLog,
                  nCalls, rested >>
  /\ UNCHANGED dataVars

\* result = self.geocode_address(address); results.append(result).  The
\* loop has no try block: an exception that leaves geocode_address ends the
\* bulk call without a returned list.
BulkLookup ==
  /\ pc = "loop"
  /\ bulk.i < Len(bulk.unique_addresses)
  /\ bulk.has_callback => bulk.notified
  /\ LET address == bulk.unique_addresses[bulk.i + 1]
     IN  \E r \in GeocodeOutcomes(svc, address, cache, now) :
           /\ Invoke(address, r)
           /\ bulk' = IF r.raised
                        THEN [bulk EXCEPT !.raised = TRUE]
                        ELSE [bulk EXCEPT !.results = Append(@, r.result),
                                          !.i = @ + 1,
                                          !.notified = FALSE]
           /\ pc' = IF r.raised THEN "idle" ELSE pc
           /\ events' = Append(events,
                               LookupEvent(bulk.i + 1,
                                           Len(bulk.unique_addresses), address))
  /\ UNCHANGED nInst
  /\ UNCHANGED dataVars

\* The loop is over: address_to_result is built from results
BulkMap ==
  /\ pc = "loop"
  /\ bulk.i = Len(bulk.unique_addresses)
  /\ pc' = "expand"
  /\ UNCHANGED << svc, nInst, cache, now, bulk, lastCall, prevCall, freeLog,
                  events, nCalls, rested >>
  /\ UNCHANGED dataVars

\* One round of "for address in addresses": the mapped result, or a new
\* lookup for an address the mapping lacks
BulkAppend ==
  /\ pc = "expand"
  /\ bulk.j < Len(bulk.addresses)
  /\ LET address == bulk.addresses[bulk.j + 1]
         mapping == address_to_result(bulk.results)
         mapped == address \in DOMAIN mapping
     IN  \E r \in IF mapped THEN {NoCall}
                  ELSE GeocodeOutcomes(svc, address, cache, now) :
           IF mapped
             THEN /\ bulk' = [bulk EXCEPT
                                !.final_results = Append(@, mapping[address]),
                                !.j = @ + 1]
                  /\ UNCHANGED << svc, cache, now, pc, lastCall, prevCall,
                                  freeLog, events, nCalls, rested >>
             ELSE /\ Invoke(address, r)
                  /\ bulk' = IF r.raised
                               THEN [bulk EXCEPT !.raised = TRUE]
                               ELSE [bulk EXCEPT
                                       !.final_results = Append(@, r.result),
                                       !.j = @ + 1]
                  /\ pc' = IF r.raised THEN "idle" ELSE pc
                  /\ events' = Append(events,
                                      LookupEvent(0, Len(bulk.unique_addresses),
                                                  address))
  /\ UNCHANGED nInst
  /\ UNCHANGED dataVars

\* return final_results
BulkReturn ==
  /\ pc = "expand"
  /\ bulk.j = Len(bulk.addresses)
  /\ bulk' = [bulk EXCEPT !.done = TRUE]
  /\ pc' = "idle"
  /\ UNCHANGED << svc, nInst, cache, now, lastCall, prevCall, freeLog, events,
                  nCalls, rested >>
  /\ UNCHANGED dataVars

\* Single lookups
Next ==
  \/ \E g \in BOOLEAN, k \in BOOLEAN : Construct(g, k)
  \/ \E d \in IdlePeriods : Tick(d)
  \/ \E a \in AddressPool : Lookup(a)

Spec == Init /\ [][Next]_vars

\* One bulk resolution, after single lookups that fill the cache
NextBulk ==
  \/ \E g \in BOOLEAN, k \in BOOLEAN : Construct(g, k)
  \/ \E addresses \in AddressLists, has_callback \in BOOLEAN :
       \E unique_addresses \in unique_lists(addresses) :
         BulkStart(addresses, unique_addresses, has_callback)
  \/ BulkProgress
  \/ BulkLookup
  \/ BulkMap
  \/ BulkAppend
  \/ BulkReturn

SpecBulk == Init /\ [][NextBulk]_vars

\* The addresses direct callers of cache_location pass: two spellings of one
\* place that differ in case and surrounding whitespace, and another place
WritePool == {<< "k" >>, << " ", "K", "\t" >>, << "q" >>}

\* A caller invokes geo_service.cache_location(address, location_data) with
\* the dictionary of a provider answer
CacheLocation(address, out) ==
  /\ pc = "idle"
  /\ nInst > 0
  /\ nCalls < MaxCalls
  /\ cache' = cache_location(cache, address,
                             ProviderResult(out, "nominatim", NominatimConfidence),
                             now)
  /\ nCalls' = nCalls + 1
  /\ UNCHANGED << svc, nInst, now, pc, bulk, lastCall, prevCall, freeLog,
                  events, rested >>
  /\ UNCHANGED dataVars

\* Lookups and direct cache writes
NextCache ==
  \/ \E g \in BOOLEAN, k \in BOOLEAN : Construct(g, k)
  \/ \E a \in AddressPool : Lookup(a)
  \/ \E a \in WritePool, out \in Locations : CacheLocation(a, out)

SpecCache == Init /\ [][NextCache]_vars

\* ------------------------------------------------------------------------
\* Properties of single lookups (specification Spec)
\* ------------------------------------------------------------------------
\* The cache key of the address a call was made for
CallKey(c) == get_address_hash(clean_address(c.address))

\* The rows the cache held for the call's key when the call started, and
\* when it returned
EntriesBefore(c) == RowsWithHash(c.table_before, CallKey(c))
EntriesAfter(c) == RowsWithHash(c.table_after, CallKey(c))

IsLookup(c) == c.valid /\ ~IsEmptyAddress(c.address)
IsHit(c) == IsLookup(c) /\ EntriesBefore(c) # {}
IsMiss(c) == IsLookup(c) /\ EntriesBefore(c) = {}
Providers(c) == [k \in 1..Len(c.requests) |-> c.requests[k].provider]
AllFailed(c) ==
  IsMiss(c) /\ \A k \in 1..Len(c.requests) : ~c.requests[k].answered
Located(c) == c.valid /\ c.result.latitude # None

\* C1: a lookup whose key is in the cache returns the entry's coordinates,
\* sends no request to any provider, leaves the rate limiter alone and sets
\* the entry's last_used_timestamp to the time of the hit.
C1_CacheHit ==
  IsHit(lastCall) =>
    /\ \A e \in EntriesBefore(lastCall) :
         /\ lastCall.result.latitude = e.latitude
         /\ lastCall.result.longitude = e.longitude
    /\ lastCall.requests = << >>
    /\ lastCall.self_after.last_request_time
         = lastCall.self_before.last_request_time
    /\ lastCall.returned = lastCall.started
    /\ EntriesAfter(lastCall) # {}
    /\ \A e \in EntriesAfter(lastCall) :
         e.last_used_timestamp = lastCall.started

\* A hit on an entry that was written at an earlier time
C1_Witness ==
  /\ IsHit(lastCall)
  /\ lastCall.result.cached
  /\ \E e \in EntriesBefore(lastCall) :
       e.last_used_timestamp < lastCall.started

\* C2: when no provider of the chain gives a result for a non-empty address,
\* the call returns null coordinates with error "Geocoding failed" and leaves
\* the cache as it was, and the next lookup of the same address queries the
\* providers again.
C2_FailureNotCached ==
  /\ AllFailed(lastCall) =>
       /\ lastCall.result.latitude = None
       /\ lastCall.result.longitude = None
       /\ lastCall.result.error = Some("Geocoding failed")
       /\ lastCall.table_after = lastCall.table_before
  /\ (AllFailed(prevCall) /\ IsLookup(lastCall)
        /\ CallKey(lastCall) = CallKey(prevCall)) =>
       lastCall.requests # << >>

\* A failed lookup followed by a lookup of the same address
C2_Witness ==
  /\ AllFailed(prevCall)
  /\ prevCall.requests # << >>
  /\ IsLookup(lastCall)
  /\ lastCall.address = prevCall.address
  /\ lastCall.requests # << >>

\* C3: when a provider answers on a miss, the cache holds, when the call
\* returns, an entry under the key of the cleaned address with the returned
\* latitude, longitude and provider.
C3_SuccessCached ==
  (Located(lastCall) /\ ~lastCall.result.cached) =>
    /\ IsMiss(lastCall)
    /\ \E e \in EntriesAfter(lastCall) :
         /\ e.latitude = lastCall.result.latitude
         /\ e.longitude = lastCall.result.longitude
         /\ e.provider = lastCall.result.provider
         /\ e.original_address = clean_address(lastCall.address)

\* A provider answered with coordinates that tell latitude from longitude
C3_Witness ==
  /\ Located(lastCall)
  /\ ~lastCall.result.cached
  /\ lastCall.result.latitude # lastCall.result.longitude

SameCleaned(c, d) ==
  /\ IsLookup(c)
  /\ IsLookup(d)
  /\ clean_address(c.address) = clean_address(d.address)

\* C4 as stated: two lookups in a row of the same cleaned address return the
\* same coordinates and the second sends no request.
C4_Idempotent_Original ==
  SameCleaned(prevCall, lastCall) =>
    /\ lastCall.result.latitude = prevCall.result.latitude
    /\ lastCall.result.longitude = prevCall.result.longitude
    /\ lastCall.requests = << >>

\* C4 (amended): two lookups in a row of the same cleaned address return the
\* same coordinates and the second sends no request and is a cache hit,
\* provided the first one returned coordinates.
C4_Idempotent ==
  (SameCleaned(prevCall, lastCall) /\ Located(prevCall)) =>
    /\ lastCall.result.latitude = prevCall.result.latitude
    /\ lastCall.result.longitude = prevCall.result.longitude
    /\ lastCall.requests = << >>
    /\ lastCall.result.cached

\* A provider answered the first lookup and the same address is looked up
\* again
C4_Witness ==
  /\ SameCleaned(prevCall, lastCall)
  /\ Located(prevCall)
  /\ ~prevCall.result.cached
  /\ lastCall.result.cached

PaidConfigured(c) ==
  c.self_before.use_google_api /\ c.self_before.google_api_key

\* C5: on a miss the paid provider is asked first, if and only if it is
\* enabled and has a credential; the free provider is asked if and only if
\* the paid one was skipped or gave no result; the call returns the first
\* result, named after the provider that gave it.
C5_ProviderOrder ==
  IsMiss(lastCall) =>
    LET q == lastCall.requests
        paidAsked == \E k \in 1..Len(q) : q[k].provider = "google"
        freeAsked == \E k \in 1..Len(q) : q[k].provider = "nominatim"
        paidAnswered ==
          \E k \in 1..Len(q) : q[k].provider = "google" /\ q[k].answered
    IN  /\ paidAsked <=> PaidConfigured(lastCall)
        /\ paidAsked => q[1].provider = "google"
        /\ freeAsked <=> ~paidAnswered
        /\ Providers(lastCall) \in
             {<< "google" >>, << "nominatim" >>, << "google", "nominatim" >>}
        /\ \A k \in 1..Len(q) :
             q[k].answered =>
               /\ k = Len(q)
               /\ lastCall.result.provider = Some(q[k].provider)
        /\ (\A k \in 1..Len(q) : ~q[k].answered) =>
             lastCall.result.provider = None

\* The paid provider answered, so the free one was not asked
C5_Witness ==
  /\ IsMiss(lastCall)
  /\ Providers(lastCall) = << "google" >>
  /\ lastCall.result.provider = Some("google")

C7_GlobalRateLimit ==
  \A k \in 1..(Len(freeLog) - 1) :
    freeLog[k + 1].time - freeLog[k].time >= MinRequestInterval

\* ------------------------------------------------------------------------
\* Properties of one lookup, among lookups and cache writes
\* (specification SpecCache)
\* ------------------------------------------------------------------------
\* The terminal outcomes of a lookup, read off the returned dictionary
HitOutcome(c) == c.result.cached
SuccessOutcome(c) == ~c.result.cached /\ c.result.error = None
FailedOutcome(c) == c.result.error = Some("Geocoding failed")

RequestsTo(c, provider) ==
  {k \in 1..Len(c.requests) : c.requests[k].provider = provider}

\* C24: one call of geocode_address sends at most one request to the paid
\* provider and at most one to the free provider, at most two in all, and
\* repeats no request that failed.
C24_NoRetries ==
  lastCall.valid =>
    /\ Cardinality(RequestsTo(lastCall, "google")) <= 1
    /\ Cardinality(RequestsTo(lastCall, "nominatim")) <= 1
    /\ Len(lastCall.requests) <= 2
    /\ \A k \in 1..Len(lastCall.requests) :
         ~lastCall.requests[k].answered =>
           \A m \in (k + 1)..Len(lastCall.requests) :
             lastCall.requests[m].provider # lastCall.requests[k].provider

\* Both providers were asked once and both failed, one by raising
C24_Witness ==
  /\ lastCall.valid
  /\ Len(lastCall.requests) = 2
  /\ ~lastCall.requests[1].answered
  /\ ~lastCall.requests[2].answered
  /\ lastCall.requests[2].raised
  /\ lastCall.result.error = Some("Geocoding failed")

\* C26: a lookup of a null or empty address returns null coordinates with
\* error "Empty address"; it does not read the cache, sends no request,
\* leaves the rate limiter, the clock and the cache as they were.
C26_EmptyAddress ==
  (lastCall.valid /\ lastCall.address \in {None, Some(<< >>)}) =>
    /\ lastCall.result.latitude = None
    /\ lastCall.result.longitude = None
    /\ lastCall.result.error = Some("Empty address")
    /\ ~lastCall.cache_read
    /\ lastCall.requests = << >>
    /\ lastCall.self_after = lastCall.self_before
    /\ lastCall.returned = lastCall.started
    /\ lastCall.table_after = lastCall.table_before

\* The empty string is looked up while the cache holds an entry
C26_Witness ==
  /\ lastCall.valid
  /\ lastCall.address = Some(<< >>)
  /\ lastCall.table_before # {}
  /\ lastCall.result.error = Some("Empty address")

\* ------------------------------------------------------------------------
\* The entries over a sequence of lookups (specification Spec)
\* ------------------------------------------------------------------------
\* The table holds the entry r, with any last_used_timestamp
Kept(r, table) ==
  \E q \in table : q = [r EXCEPT !.last_used_timestamp = q.last_used_timestamp]

\* C27: over any sequence of lookups an entry of the cache is never removed
\* and nothing but its last_used_timestamp ever changes; an entry is added
\* only by a lookup that missed, under the key of that lookup; and every
\* entry has coordinates.
C27_EntriesImmutable ==
  [][/\ \A r \in cache : Kept(r, cache')
     /\ \A q \in cache' :
          /\ q.latitude # None
          /\ q.longitude # None
          /\ RowsWithHash(cache, q.address_hash) = {} =>
               /\ IsMiss(lastCall')
               /\ q.address_hash = CallKey(lastCall')]_vars

\* A hit at a later time on the only entry of the cache: the entry is as
\* the earlier lookup wrote it, but for last_used_timestamp
C27_Witness ==
  /\ IsHit(lastCall)
  /\ Cardinality(cache) = 1
  /\ SuccessOutcome(prevCall)
  /\ \A e \in cache :
       /\ e.address_hash = CallKey(lastCall)
       /\ e.latitude = prevCall.result.latitude
       /\ e.created_timestamp = prevCall.returned
       /\ e.created_timestamp < e.last_used_timestamp
       /\ e.last_used_timestamp = lastCall.started

\* ------------------------------------------------------------------------
\* Properties of cache writes (specification SpecCache)
\* ------------------------------------------------------------------------
\* No two entries of the table have the same key, nor addresses that differ
\* only in letter case or surrounding whitespace
OneEntryPerKey(table) ==
  \A r, q \in table :
    (\/ r.address_hash = q.address_hash
     \/ Lower(Strip(r.original_address)) = Lower(Strip(q.original_address)))
      => r = q

\* The entries whose address is `address` up to case and surrounding
\* whitespace
SameKey(table, address) ==
  {r \in table : Lower(Strip(r.original_address)) = Lower(Strip(address))}

\* C23: after any sequence of lookups and cache writes the cache holds at
\* most one entry per key, and addresses that differ only in letter case or
\* surrounding whitespace share one entry.  A write for a key that is
\* present replaces the entry: the table keeps its size and holds the
\* written data; a write for a new key adds one entry.
C23_OneEntryPerKey ==
  [][/\ OneEntryPerKey(cache')
     /\ \A a \in WritePool, out \in Locations :
          CacheLocation(a, out) =>
            /\ Cardinality(cache')
                 = Cardinality(cache) + (IF SameKey(cache, a) = {} THEN 1 ELSE 0)
            /\ \E r \in cache' :
                 /\ SameKey(cache', a) = {r}
                 /\ r.original_address = a
                 /\ r.latitude = Some(out.latitude)
                 /\ r.longitude = Some(out.longitude)]_vars

\* Two writes and no lookup have left one entry: the second write, of the
\* spelling with capital and whitespace, replaced what the first wrote
C23_Witness ==
  /\ nCalls = 2
  /\ ~lastCall.valid
  /\ Cardinality(cache) = 1
  /\ \A r \in cache :
       /\ r.original_address = << " ", "K", "\t" >>
       /\ r.latitude = Some(0)

\* ------------------------------------------------------------------------
\* Properties of bulk resolution (specification SpecBulk)
\* ------------------------------------------------------------------------
LookupsOf(a) ==
  {k \in 1..Len(events) : events[k].kind = "lookup" /\ events[k].address = a}

\* C8: the returned list is as long as the input, its i-th element is the
\* result for the i-th input address, and equal input addresses get equal
\* results.
C8_BulkOrder ==
  bulk.done =>
    /\ Len(bulk.final_results) = Len(bulk.addresses)
    /\ \A i \in 1..Len(bulk.addresses) :
         bulk.final_results[i].original_address = bulk.addresses[i]
    /\ \A i, j \in 1..Len(bulk.addresses) :
         bulk.addresses[i] = bulk.addresses[j] =>
           bulk.final_results[i] = bulk.final_results[j]

\* A list with a repeated address around another one, resolved by a provider
C8_Witness ==
  /\ bulk.done
  /\ Len(bulk.addresses) = 3
  /\ bulk.addresses[1] = bulk.addresses[3]
  /\ bulk.addresses[1] # bulk.addresses[2]
  /\ bulk.final_results[1].latitude # None
  /\ ~bulk.final_results[1].cached

\* C9: one bulk call invokes geocode_address exactly once for each distinct
\* address of its input, and for no other address.
C9_ResolvedOnce ==
  /\ \A k \in 1..Len(events) :
       events[k].kind = "lookup" => events[k].address \in Range(bulk.addresses)
  /\ \A a \in Range(bulk.addresses) : Cardinality(LookupsOf(a)) <= 1
  /\ bulk.done =>
       \A a \in Range(bulk.addresses) : Cardinality(LookupsOf(a)) = 1

\* A repeated address whose resolution failed
C9_Witness ==
  /\ bulk.done
  /\ Len(bulk.addresses) = 3
  /\ bulk.addresses[1] = bulk.addresses[2]
  /\ bulk.final_results[1].error = Some("Geocoding failed")
  /\ bulk.final_results[3].latitude # None

\* C10 as stated: the callback for a lookup is invoked after that lookup has
\* completed.
C10_ProgressAfterLookup ==
  \A p \in 1..Len(events) :
    events[p].kind = "progress" =>
      \E q \in 1..(p - 1) :
        /\ events[q].kind = "lookup"
        /\ events[q].index = events[p].index

\* C10 (amended): when a callback is given it is invoked once per lookup,
\* immediately before that lookup starts, with the 1-based index of the
\* lookup, the number of distinct addresses and the address about to be
\* looked up; the indices of one bulk call are 1, 2, ..., total in order.
C10_ProgressBeforeLookup ==
  LET total == Len(bulk.unique_addresses)
      step(p) == (p + 1) \div 2
  IN  /\ bulk.has_callback =>
           /\ \A p \in 1..Len(events) :
                /\ events[p].kind = IF p % 2 = 1 THEN "progress" ELSE "lookup"
                /\ events[p].index = step(p)
                /\ events[p].total = total
                /\ events[p].address = bulk.unique_addresses[step(p)]
           /\ bulk.done => Len(events) = 2 * total
      /\ ~bulk.has_callback =>
           \A p \in 1..Len(events) : events[p].kind = "lookup"

\* A bulk call with a callback over two distinct addresses has returned
C10_Witness ==
  /\ bulk.done
  /\ bulk.has_callback
  /\ Len(bulk.unique_addresses) = 2
  /\ Len(events) = 4

\* ------------------------------------------------------------------------
\* Provider failures (specification SpecBulk)
\* ------------------------------------------------------------------------
\* A provider client raised during the call
ProviderRaised(c) == \E k \in 1..Len(c.requests) : c.requests[k].raised

\* C11: an exception raised by a provider client is caught in that
\* provider's method and counts as "no result": the free provider is still
\* asked after the paid one raised, the call returns what the remaining
\* answers give, no exception leaves geocode_address, and a finished bulk
\* call holds one result for every address it was given.
C11_ProviderFailureContained ==
  /\ lastCall.valid =>
       /\ ~lastCall.raised
       /\ \A k \in 1..Len(lastCall.requests) :
            (lastCall.requests[k].raised
               /\ lastCall.requests[k].provider = "google") =>
              /\ Len(lastCall.requests) = k + 1
              /\ lastCall.requests[k + 1].provider = "nominatim"
       /\ (ProviderRaised(lastCall) /\ AllFailed(lastCall)) =>
            lastCall.result.error = Some("Geocoding failed")
       /\ (ProviderRaised(lastCall) /\ ~AllFailed(lastCall)) =>
            /\ Located(lastCall)
            /\ lastCall.result.provider = Some("nominatim")
  /\ ~bulk.raised
  /\ bulk.done =>
       /\ Len(bulk.final_results) = Len(bulk.addresses)
       /\ \A k \in 1..Len(bulk.addresses) :
            bulk.final_results[k].original_address = bulk.addresses[k]

\* A finished bulk call over two addresses: both providers raised for the
\* first, which has an error result, and the second was located
C11_Witness ==
  /\ bulk.done
  /\ Len(bulk.addresses) = 2
  /\ Len(bulk.final_results) = 2
  /\ prevCall.valid
  /\ Len(prevCall.requests) = 2
  /\ prevCall.requests[1].raised
  /\ prevCall.requests[2].raised
  /\ \E k \in 1..2 : bulk.final_results[k].error = Some("Geocoding failed")
  /\ \E k \in 1..2 : bulk.final_results[k].latitude # None

\* ========================================================================
\* Part 2: the analyses of data_processing.py
\*
\* Conventions
\*   - A Python float is Float(kind, tenths): kind is "finite", "nan", "inf"
\*     or "-inf", and a finite value is kept to one decimal, in tenths.
\*   - A spreadsheet cell is a record with its Python type, its text (for a
\*     str) and its number (for an int or a float).
\*   - A DataFrame is the sequence of its rows, each row a record.
\* ========================================================================
\* ------------------------------------------------------------------------
\* Python values
\* ------------------------------------------------------------------------
Float(kind, tenths) == [kind |-> kind, tenths |-> tenths]
FloatNaN == Float("nan", 0)
FloatZero == Float("finite", 0)

Str(s) == [type |-> "str", text |-> s, num |-> FloatZero]
PyNone == [type |-> "NoneType", text |-> << >>, num |-> FloatZero]
PyFloat(f) == [type |-> "float", text |-> << >>, num |-> f]
PyInt(n) == [type |-> "int", text |-> << >>, num |-> Float("finite", n * 10)]

\* pd.isna(value) on a scalar
isna(value) ==
  \/ value.type = "NoneType"
  \/ value.type = "float" /\ value.num.kind = "nan"

\* Position of the first element of s that lies in chars, 0 when none does
IndexOf(s, chars) ==
  IF \E i \in 1..Len(s) : s[i] \in chars
    THEN CHOOSE i \in 1..Len(s) :
           s[i] \in chars /\ \A j \in 1..(i - 1) : s[j] \notin chars
    ELSE 0

\* str.strip(chars)
RECURSIVE LStripChars(_, _)
LStripChars(s, chars) ==
  IF s # << >> /\ Head(s) \in chars THEN LStripChars(Tail(s), chars) ELSE s

RECURSIVE RStripChars(_, _)
RStripChars(s, chars) ==
  IF s # << >> /\ s[Len(s)] \in chars
    THEN RStripChars(SubSeq(s, 1, Len(s) - 1), chars)
    ELSE s

StripChars(s, chars) == RStripChars(LStripChars(s, chars), chars)

\* str.split(sep) for a one-character separator
RECURSIVE Split(_, _)
Split(s, sep) ==
  LET i == IndexOf(s, {sep})
  IN  IF i = 0 THEN << s >>
      ELSE << SubSeq(s, 1, i - 1) >> \o Split(SubSeq(s, i + 1, Len(s)), sep)

Digits == {"0", "1", "2", "3", "4", "5", "6", "7", "8", "9"}

DigitValue(c) ==
  CASE c = "0" -> 0 [] c = "1" -> 1 [] c = "2" -> 2 [] c = "3" -> 3
    [] c = "4" -> 4 [] c = "5" -> 5 [] c = "6" -> 6 [] c = "7" -> 7
    [] c = "8" -> 8 [] c = "9" -> 9

IsDigits(s) == \A i \in 1..Len(s) : s[i] \in Digits

RECURSIVE NatValue(_)
NatValue(s) ==
  IF s = << >> THEN 0
  ELSE NatValue(SubSeq(s, 1, Len(s) - 1)) * 10 + DigitValue(s[Len(s)])

RECURSIVE Pow10(_)
Pow10(k) == IF k = 0 THEN 1 ELSE 10 * Pow10(k - 1)

NanLower == << "n", "a", "n" >>
InfLower == << "i", "n", "f" >>
InfinityLower == << "i", "n", "f", "i", "n", "i", "t", "y" >>

\* float(text): None stands for ValueError.  Blanks around the literal are
\* ignored; the literal is a sign, then nan, inf, infinity, or decimal digits
\* with an optional point and an optional exponent.
float_of_str(text) ==
  LET t == Strip(text)
      signed == t # << >> /\ t[1] \in {"+", "-"}
      neg == signed /\ t[1] = "-"
      u == IF signed THEN Tail(t) ELSE t
      e == IndexOf(u, {"e", "E"})
      mant == IF e = 0 THEN u ELSE SubSeq(u, 1, e - 1)
      expo == IF e = 0 THEN << >> ELSE SubSeq(u, e + 1, Len(u))
      esigned == expo # << >> /\ expo[1] \in {"+", "-"}
      edigits == IF esigned THEN Tail(expo) ELSE expo
      dot == IndexOf(mant, {"."})
      ip == IF dot = 0 THEN mant ELSE SubSeq(mant, 1, dot - 1)
      fp == IF dot = 0 THEN << >> ELSE SubSeq(mant, dot + 1, Len(mant))
      numeric == /\ IsDigits(ip)
                 /\ IsDigits(fp)
                 /\ Len(ip) + Len(fp) > 0
                 /\ e # 0 => (edigits # << >> /\ IsDigits(edigits))
      ev == IF esigned /\ expo[1] = "-" THEN 0 - NatValue(edigits)
            ELSE NatValue(edigits)
      shift == ev + 1 - Len(fp)
      m == NatValue(ip \o fp)
      mag == IF shift >= 0 THEN m * Pow10(shift) ELSE m \div Pow10(0 - shift)
  IN  IF Lower(u) = NanLower THEN Some(FloatNaN)
      ELSE IF Lower(u) \in {InfLower, InfinityLower}
        THEN Some(Float(IF neg THEN "-inf" ELSE "inf", 0))
      ELSE IF numeric THEN Some(Float("finite", IF neg THEN 0 - mag ELSE mag))
      ELSE None

\* ------------------------------------------------------------------------
\* Dates
\* ------------------------------------------------------------------------
\* A pandas Timestamp is its distance from 1970-01-01 in tenths of a day;
\* NaT is the null Timestamp and NoneDate is Python's None.
Timestamp(tenths) == [kind |-> "Timestamp", tenths |-> tenths]
NaT == [kind |-> "NaT", tenths |-> 0]
NoneDate == [kind |-> "None", tenths |-> 0]
NotConverted == [kind |-> "pending", tenths |-> 0]

\* Day number of a date of the proleptic Gregorian calendar, 1970-01-01
\* being day 0
DaysFromCivil(y, m, d) ==
  LET yy == IF m <= 2 THEN y - 1 ELSE y
      era == yy \div 400
      yoe == yy - era * 400
      mp == IF m > 2 THEN m - 3 ELSE m + 9
      doy == (153 * mp + 2) \div 5 + d - 1
      doe == yoe * 365 + yoe \div 4 - yoe \div 100 + doy
  IN  era * 146097 + doe - 719468

\* The date << year, month, day >> of a day number
CivilFromDays(z) ==
  LET zz == z + 719468
      era == zz \div 146097
      doe == zz - era * 146097
      yoe == (doe - doe \div 1460 + doe \div 36524 - doe \div 146096) \div 365
      doy == doe - (365 * yoe + yoe \div 4 - yoe \div 100)
      mp == (5 * doy + 2) \div 153
      d == doy - (153 * mp + 2) \div 5 + 1
      m == IF mp < 10 THEN mp + 3 ELSE mp - 9
      y == yoe + era * 400
  IN  << IF m <= 2 THEN y + 1 ELSE y, m, d >>

\* The calendar date of a Timestamp
DateOf(ts) == CivilFromDays(ts.tenths \div 10)

\* Timestamp and Timedelta count nanoseconds in 64 bits: both reach
\* 106751.99 days to either side of zero
InNanosecondRange(tenths) ==
  0 - NanosecondRangeTenths <= tenths /\ tenths <= NanosecondRangeTenths

\* pd.to_datetime("1899-12-30"), and the epoch without the two-day adjustment
ExcelEpochUnadjusted == Timestamp(DaysFromCivil(1900, 1, 1) * 10)

ExcelEpoch == Timestamp(DaysFromCivil(1899, 12, 30) * 10)

IsLeap(y) == y % 4 = 0 /\ (y % 100 # 0 \/ y % 400 = 0)

DaysInMonth(y, m) ==
  IF m = 2 THEN (IF IsLeap(y) THEN 29 ELSE 28)
  ELSE IF m \in {4, 6, 9, 11} THEN 30 ELSE 31

Hyphen == "-"
NaTStrings == { << >>, << "N", "a", "T" >>, << "n", "a", "t" >>,
                << "n", "a", "n" >>, << "N", "a", "N" >> }

\* pd.to_datetime(text) for one text: None stands for the exception raised
\* for a text that is no date or a date out of range.  The date formats are
\* those of the form YYYY-MM-DD; the empty text and the null markers give
\* NaT.
to_datetime_text(text) ==
  IF text \in NaTStrings THEN Some(NaT)
  ELSE IF /\ Len(text) = 10
          /\ text[5] = Hyphen
          /\ text[8] = Hyphen
          /\ IsDigits(SubSeq(text, 1, 4))
          /\ IsDigits(SubSeq(text, 6, 7))
          /\ IsDigits(SubSeq(text, 9, 10))
    THEN LET y == NatValue(SubSeq(text, 1, 4))
             m == NatValue(SubSeq(text, 6, 7))
             d == NatValue(SubSeq(text, 9, 10))
         IN  IF /\ m \in 1..12
                /\ d \in 1..DaysInMonth(y, m)
                /\ InNanosecondRange(DaysFromCivil(y, m, d) * 10)
               THEN Some(Timestamp(DaysFromCivil(y, m, d) * 10))
               ELSE None
  ELSE None

\* pd.to_datetime("1899-12-30") + pd.Timedelta(days=excel_date): None stands
\* for the exception of a Timedelta or a sum that leaves the 64-bit range
epoch_plus_days(days) ==
  IF days.kind # "finite" THEN None
  ELSE IF ~InNanosecondRange(days.tenths) THEN None
  ELSE IF ~InNanosecondRange(ExcelEpoch.tenths + days.tenths) THEN None
  ELSE Some(Timestamp(ExcelEpoch.tenths + days.tenths))

\* isinstance(excel_date, (int, float)); bool is a subclass of int
IsIntOrFloat(value) == value.type \in {"int", "float", "bool"}

\* The bare "except:" of convert_excel_date takes every exception
ConvertHandlerCatches == TRUE

\* convert_excel_date: the value returned, and whether an exception leaves
\* the function
convert_excel_date(value) ==
  LET attempt ==
        IF isna(value) THEN Some(NoneDate)
        ELSE IF IsIntOrFloat(value) THEN epoch_plus_days(value.num)
        ELSE to_datetime_text(value.text)
  IN  IF attempt # None THEN [value |-> attempt[1], raised |-> FALSE]
      ELSE [value |-> NoneDate, raised |-> ~ConvertHandlerCatches]

\* ------------------------------------------------------------------------
\* parse_customer_data
\* ------------------------------------------------------------------------
Braces == {"{", "}"}
Underscore == "_"

\* if len(parts) >= 6
EnoughPartsStrict(parts) == Len(parts) > 6

EnoughParts(parts) == Len(parts) >= 6

\* except (ValueError, IndexError): the exceptions the handler takes
ParserHandler == {"ValueError", "IndexError"}

\* The dictionary customer_data
customer_data(parts, created_date) ==
  [customer_id |-> parts[1],
   name |-> parts[2],
   email |-> parts[3],
   dob |-> parts[4],
   address |-> parts[5],
   created_date |-> created_date]

\* One round of "for row in raw_data": the dictionaries appended to
\* `customers` (none or one) and whether an exception leaves the loop
parse_row(cell) ==
  IF isna(cell) \/ cell.type # "str"
    THEN [appended |-> << >>, raised |-> FALSE]
  ELSE
    LET cleaned == StripChars(cell.text, Braces)
        parts == Split(cleaned, Underscore)
    IN  IF EnoughParts(parts)
          THEN LET created_date == float_of_str(parts[6])
               IN  IF created_date # None
                     THEN [appended |-> << customer_data(parts, created_date[1]) >>,
                           raised |-> FALSE]
                     ELSE [appended |-> << >>,
                           raised |-> "ValueError" \notin ParserHandler]
          ELSE [appended |-> << >>, raised |-> FALSE]

\* The cells of the Customers column
\* {a_b_c_d_e_2}: a well-formed row
WellFormedRow ==
  Str(<< "{", "a", "_", "b", "_", "c", "_", "d", "_", "e", "_", "2", "}" >>)

\* {k_b_c_d_e_3.5}: a well-formed row of another customer, fractional serial
OtherRow ==
  Str(<< "{", "k", "_", "b", "_", "c", "_", "d", "_", "e", "_", "3", ".", "5", "}" >>)

\* {{a_b_c_d_e_+1e1_z}}: doubled braces, seven parts, exponent notation
ExtraPartsRow ==
  Str(<< "{", "{", "a", "_", "b", "_", "c", "_", "d", "_", "e", "_", "+", "1", "e", "1", "_", "z", "}", "}" >>)

\* q_b_c_d_e_ nan: no braces, the sixth part is the float literal nan
NanSerialRow ==
  Str(<< "q", "_", "b", "_", "c", "_", "d", "_", "e", "_", " ", "n", "a", "n" >>)

\* {a_b_c_d_e}: five parts
ShortRow ==
  Str(<< "{", "a", "_", "b", "_", "c", "_", "d", "_", "e", "}" >>)

\* {a_b_c_d_e_x}: the sixth part is not a float literal
BadSerialRow ==
  Str(<< "{", "a", "_", "b", "_", "c", "_", "d", "_", "e", "_", "x", "}" >>)

\* _____: six empty parts
EmptyPartsRow ==
  Str(<< "_", "_", "_", "_", "_" >>)

RawPool ==
  { PyNone, PyFloat(FloatNaN), PyInt(5),
    WellFormedRow, OtherRow, ExtraPartsRow, NanSerialRow,
    ShortRow, BadSerialRow, EmptyPartsRow }

RawColumns == UNION {[1..n -> RawPool] : n \in 0..MaxRows}

\* parse_customer_data(raw_data) is entered: customers = []
InitParser ==
  /\ GeoInit
  /\ dpc = "parse"
  /\ raw_data \in RawColumns
  /\ row = 0
  /\ customers = << >>
  /\ customers_df = None
  /\ DatesIdle
  /\ FramesIdle
  /\ AnalysesIdle
  /\ CallIdle

\* One round of "for row in raw_data"
ParseRow ==
  /\ dpc = "parse"
  /\ row < Len(raw_data)
  /\ LET r == parse_row(raw_data[row + 1])
     IN  /\ customers' = customers \o r.appended
         /\ dpc' = IF r.raised THEN "raised" ELSE dpc
  /\ row' = row + 1
  /\ UNCHANGED << raw_data, customers_df >>
  /\ UNCHANGED << geoVars, callVars, dateVars, frameVars, analysisVars >>

\* return pd.DataFrame(customers)
ParseReturn ==
  /\ dpc = "parse"
  /\ row = Len(raw_data)
  /\ customers_df' = Some(customers)
  /\ dpc' = "parsed"
  /\ UNCHANGED << raw_data, row, customers >>
  /\ UNCHANGED << geoVars, callVars, dateVars, frameVars, analysisVars >>

NextParser ==
  \/ ParseRow
  \/ ParseReturn

SpecParser == InitParser /\ [][NextParser]_vars

\* ------------------------------------------------------------------------
\* Properties of the customer parser (specification SpecParser)
\* ------------------------------------------------------------------------
\* The parts of a text cell after stripping braces and splitting on "_"
PartsOf(cell) == Split(StripChars(cell.text, {"{", "}"}), "_")

\* The cell is a non-null text with at least six parts whose sixth part
\* parses as a float
WellFormed(cell) ==
  /\ cell.type = "str"
  /\ Len(PartsOf(cell)) >= 6
  /\ float_of_str(PartsOf(cell)[6]) # None

Skipped(cells) == {i \in 1..Len(cells) : ~WellFormed(cells[i])}

\* C12: the parser keeps exactly the well-formed cells.  It never raises,
\* the number of rows is the number of cells minus the number of skipped
\* cells, the rows are in the order of their cells, and the first five
\* parts are customer_id, name, email, dob and address.
C12_ParserKeepsWellFormed ==
  /\ dpc # "raised"
  /\ LET seen == SubSeq(raw_data, 1, row)
         kept == SelectSeq(seen, WellFormed)
     IN  /\ Len(customers) = row - Cardinality(Skipped(seen))
         /\ Len(customers) = Len(kept)
         /\ \A k \in 1..Len(kept) :
              /\ customers[k].customer_id = PartsOf(kept[k])[1]
              /\ customers[k].name = PartsOf(kept[k])[2]
              /\ customers[k].email = PartsOf(kept[k])[3]
              /\ customers[k].dob = PartsOf(kept[k])[4]
              /\ customers[k].address = PartsOf(kept[k])[5]
  /\ dpc = "parsed" =>
       /\ row = Len(raw_data)
       /\ customers_df = Some(customers)

\* A returned frame of two rows from a column of three cells whose middle
\* cell has a sixth part that is no float
C12_Witness ==
  /\ dpc = "parsed"
  /\ raw_data = << OtherRow, BadSerialRow, ExtraPartsRow >>
  /\ Len(customers_df[1]) = 2
  /\ customers_df[1][1].customer_id = << "k" >>
  /\ customers_df[1][2].customer_id = << "a" >>
  /\ customers_df[1][2].created_date = Float("finite", 100)

\* C13: the frame the parser returns holds no two identical records.
C13_NoDuplicateCustomers ==
  dpc = "parsed" =>
    \A i, j \in 1..Len(customers_df[1]) :
      customers_df[1][i] = customers_df[1][j] => i = j

\* ------------------------------------------------------------------------
\* convert_excel_date on its own
\* ------------------------------------------------------------------------
PyBool(b) ==
  [type |-> "bool", text |-> << >>,
   num |-> Float("finite", IF b THEN 10 ELSE 0)]

\* 1990-05-17
IsoDateText ==
  << "1", "9", "9", "0", "-", "0", "5", "-", "1", "7" >>

\* 1990-02-30: no such day
NoSuchDayText ==
  << "1", "9", "9", "0", "-", "0", "2", "-", "3", "0" >>

NotADateText == << "x" >>

\* The arguments given to convert_excel_date: whole serials around zero,
\* fractional serials, serials at and beyond the ends of the 64-bit range,
\* the special floats, null, a bool and texts
ExcelDatePool ==
  {PyInt(n) : n \in (0 - 5)..MaxSerial}
    \cup {PyFloat(Float("finite", t)) :
            t \in {25, 0 - 5, 450005,
                   NanosecondRangeTenths, NanosecondRangeTenths + 1,
                   0 - 811830, 0 - 811829}}
    \cup {PyInt(106751), PyInt(106752), PyInt(0 - 81183)}
    \cup {PyFloat(FloatNaN), PyFloat(Float("inf", 0)), PyFloat(Float("-inf", 0)),
          PyNone, PyBool(TRUE),
          Str(IsoDateText), Str(NoSuchDayText), Str(NotADateText), Str(<< >>)}

\* convert_excel_date(excel_date) is entered
InitDates ==
  /\ GeoInit
  /\ dpc = "convert"
  /\ ParserIdle
  /\ FramesIdle
  /\ AnalysesIdle
  /\ CallIdle
  /\ excel_date \in ExcelDatePool
  /\ converted = NotConverted

\* convert_excel_date runs to its return
ConvertExcelDate ==
  /\ dpc = "convert"
  /\ LET r == convert_excel_date(excel_date)
     IN  /\ converted' = r.value
         /\ dpc' = IF r.raised THEN "raised" ELSE "converted"
  /\ UNCHANGED excel_date
  /\ UNCHANGED << geoVars, callVars, parserVars, frameVars, analysisVars >>

NextDates == ConvertExcelDate

SpecDates == InitDates /\ [][NextDates]_vars

\* ------------------------------------------------------------------------
\* Properties of convert_excel_date (specification SpecDates)
\* ------------------------------------------------------------------------
IsNull(value) ==
  value.type = "NoneType" \/ (value.type = "float" /\ value.num.kind = "nan")
IsNumeric(value) == value.type \in {"int", "float"} /\ ~IsNull(value)
IsNoDate(r) == r.kind \in {"None", "NaT"}

\* The Timestamp that lies the given number of days after 1899-12-30
SerialDate(num) == Timestamp(DaysFromCivil(1899, 12, 30) * 10 + num.tenths)

Representable(num) ==
  /\ num.kind = "finite"
  /\ InNanosecondRange(num.tenths)
  /\ InNanosecondRange(DaysFromCivil(1899, 12, 30) * 10 + num.tenths)

Transaction(customer_id, serial, product_code, amount) ==
  [customer_id |-> customer_id,
   transaction_date |-> Timestamp(ExcelEpoch.tenths + serial * 10),
   product_code |-> product_code,
   amount |-> amount]

Product(product_code, category) ==
  [product_code |-> product_code, category |-> category]

\* The customer ids and the category names of the model, in sort order
Cust1 == << "c", "1" >>
Cust2 == << "c", "2" >>
Cust3 == << "c", "3" >>
CustomerIds == << Cust1, Cust2, Cust3 >>
CategoryNames == << "A", "B" >>

\* The elements of S in the order of the sequence `order`
Sorted(order, S) == SelectSeq(order, LAMBDA x : x \in S)

\* Series.sum(): null values are skipped, the sum of nothing is 0
RECURSIVE Sum(_)
Sum(values) ==
  IF values = << >> THEN 0
  ELSE (IF Head(values) = None THEN 0 ELSE Head(values)[1]) + Sum(Tail(values))

\* Series.count(): the values that are not null
RECURSIVE Count(_)
Count(values) ==
  IF values = << >> THEN 0
  ELSE (IF Head(values) = None THEN 0 ELSE 1) + Count(Tail(values))

Amounts(rows) == [k \in 1..Len(rows) |-> rows[k].amount]

\* ------------------------------------------------------------------------
\* calculate_customer_category_totals
\* ------------------------------------------------------------------------
\* transactions_df.merge(products_df[["product_code", "category"]],
\* on="product_code", how="left"): one row per matching product, or one row
\* with a null category when no product matches
JoinedRowsFirstCategory(t, products) ==
  LET matches == SelectSeq(products, LAMBDA p : p.product_code = t.product_code)
  IN  IF matches = << >>
        THEN << [customer_id |-> t.customer_id, amount |-> t.amount,
                 category |-> Some(CategoryNames[1])] >>
        ELSE [k \in 1..Len(matches) |->
                [customer_id |-> t.customer_id, amount |-> t.amount,
                 category |-> matches[k].category]]

JoinedRows(t, products) ==
  LET matches == SelectSeq(products, LAMBDA p : p.product_code = t.product_code)
  IN  IF matches = << >>
        THEN << [customer_id |-> t.customer_id, amount |-> t.amount,
                 category |-> None] >>
        ELSE [k \in 1..Len(matches) |->
                [customer_id |-> t.customer_id, amount |-> t.amount,
                 category |-> matches[k].category]]

RECURSIVE merge_left(_, _)
merge_left(transactions, products) ==
  IF transactions = << >> THEN << >>
  ELSE JoinedRows(Head(transactions), products)
         \o merge_left(Tail(transactions), products)

\* groupby(["customer_id", "category"])["amount"].sum(): the sum of one
\* group
group_sum_last(joined, customer_id, category) ==
  LET group == SelectSeq(joined, LAMBDA r : /\ r.customer_id = customer_id
                                            /\ r.category = Some(category))
  IN  Sum(<< Amounts(group)[Len(group)] >>)

group_sum(joined, customer_id, category) ==
  LET group == SelectSeq(joined, LAMBDA r : /\ r.customer_id = customer_id
                                            /\ r.category = Some(category))
  IN  Sum(Amounts(group))

\* The keys of the groups: rows with a null category belong to no group
GroupKeys(joined) ==
  {<< joined[k].customer_id, joined[k].category[1] >> :
     k \in {i \in 1..Len(joined) : joined[i].category # None}}

\* .fillna(0) on one cell of the pivot
fillna(cell, value) == IF cell = None THEN value ELSE cell[1]

\* calculate_customer_category_totals, the frame customer_category_pivot:
\* its category columns in order and its rows in order, each row with its
\* customer_id, its category cells and Total_Spending
customer_category_pivot(transactions, products) ==
  LET joined == merge_left(transactions, products)
      keys == GroupKeys(joined)
      columns == Sorted(CategoryNames, {key[2] : key \in keys})
      index == Sorted(CustomerIds, {key[1] : key \in keys})
      cell(c, cat) == IF << c, cat >> \in keys
                        THEN Some(group_sum(joined, c, cat))
                        ELSE None
      cells(c) == [cat \in {columns[k] : k \in 1..Len(columns)} |->
                     fillna(cell(c, cat), FillValue)]
  IN  [columns |-> columns,
       rows |-> [k \in 1..Len(index) |->
                   [customer_id |-> index[k],
                    cells |-> cells(index[k]),
                    Total_Spending |->
                      Sum([j \in 1..Len(columns) |->
                             Some(cells(index[k])[columns[j]])])]]]

\* ------------------------------------------------------------------------
\* identify_top_spenders_by_category
\* ------------------------------------------------------------------------
\* One column of the pivot, top to bottom
Column(pivot, category) ==
  [k \in 1..Len(pivot.rows) |-> pivot.rows[k].cells[category]]

\* Series.max() of a column without nulls
Max(values) ==
  CHOOSE v \in {values[k] : k \in 1..Len(values)} :
    \A k \in 1..Len(values) : values[k] <= v

\* Series.idxmax(): the first position that holds the maximum
idxmax(values) ==
  CHOOSE k \in 1..Len(values) :
    /\ values[k] = Max(values)
    /\ \A j \in 1..(k - 1) : values[j] # Max(values)

PlainValues(values) == [k \in 1..Len(values) |-> Some(values[k])]

\* if customer_category_totals[category].max() > 0
HasTopSpender(pivot, category) ==
  pivot.rows # << >> /\ Max(Column(pivot, category)) > 0

\* The entry of one category: percentage_of_category is the quotient
\* num / den (den may be zero or negative; the division is numpy's and
\* does not raise)
top_spender(pivot, category) ==
  LET column == Column(pivot, category)
      top == pivot.rows[idxmax(column)]
  IN  [customer_id |-> top.customer_id,
       amount_spent |-> top.cells[category],
       total_spending_all_categories |-> top.Total_Spending,
       percentage_of_category |->
         [num |-> top.cells[category] * 100,
          den |-> Sum(PlainValues(column))]]

\* identify_top_spenders_by_category: the dictionary top_spenders
identify_top_spenders_by_category(pivot) ==
  [category \in {c \in {pivot.columns[k] : k \in 1..Len(pivot.columns)} :
                   HasTopSpender(pivot, c)}
     |-> top_spender(pivot, category)]

\* ------------------------------------------------------------------------
\* rank_customers_by_total_value
\* ------------------------------------------------------------------------
\* The quotient num / den rounded to a whole number, halves to the even
\* neighbour (den > 0)
RoundDiv(num, den) ==
  LET q == num \div den
      r == num % den
  IN  IF 2 * r < den THEN q
      ELSE IF 2 * r > den THEN q + 1
      ELSE IF q % 2 = 0 THEN q ELSE q + 1

\* Series.mean().round(2), in cents: null when no value is counted
mean_cents(values) ==
  IF Count(values) = 0 THEN None
  ELSE Some(RoundDiv(Sum(values) * 100, Count(values)))

\* min and max of the dates of a group (NaT is skipped)
FirstDate(rows) ==
  LET known == {rows[k].transaction_date.tenths :
                  k \in {i \in 1..Len(rows) :
                           rows[i].transaction_date.kind = "Timestamp"}}
  IN  IF known = {} THEN NaT
      ELSE Timestamp(CHOOSE t \in known : \A u \in known : t <= u)

LastDate(rows) ==
  LET known == {rows[k].transaction_date.tenths :
                  k \in {i \in 1..Len(rows) :
                           rows[i].transaction_date.kind = "Timestamp"}}
  IN  IF known = {} THEN NaT
      ELSE Timestamp(CHOOSE t \in known : \A u \in known : t >= u)

\* groupby("customer_id").agg(...).round(2).reset_index(): one row per
\* customer id, in the order of the ids
customer_totals(transactions) ==
  LET index == Sorted(CustomerIds,
                      {transactions[k].customer_id : k \in 1..Len(transactions)})
      group(c) == SelectSeq(transactions, LAMBDA t : t.customer_id = c)
  IN  [k \in 1..Len(index) |->
         [customer_id |-> index[k],
          total_spent |-> Sum(Amounts(group(index[k]))),
          transaction_count |-> Count(Amounts(group(index[k]))),
          avg_transaction |-> mean_cents(Amounts(group(index[k]))),
          first_purchase |-> FirstDate(group(index[k])),
          last_purchase |-> LastDate(group(index[k]))]]

\* Series.rank(method="min", ascending=False) at position k
min_rank(values, k) ==
  IF values[k] = None THEN None
  ELSE Some(1 + Cardinality({j \in 1..Len(values) :
                               values[j] # None /\ values[j][1] > values[k][1]}))

\* Series.rank(method="dense", ascending=False) at position k: a null value
\* has a null rank
dense_rank(values, k) ==
  IF values[k] = None THEN None
  ELSE Some(1 + Cardinality({values[j][1] :
                               j \in {i \in 1..Len(values) :
                                        values[i] # None
                                          /\ values[i][1] > values[k][1]}}))

\* A position that holds the smallest value
MinIndex(values) ==
  CHOOSE k \in 1..Len(values) : \A j \in 1..Len(values) : values[k] <= values[j]

\* The values in ascending order
RECURSIVE SortAsc(_)
SortAsc(values) ==
  IF values = << >> THEN << >>
  ELSE LET k == MinIndex(values)
       IN  << values[k] >>
             \o SortAsc(SubSeq(values, 1, k - 1)
                          \o SubSeq(values, k + 1, Len(values)))

\* Series.quantile(q) with linear interpolation, for q = twentieths / 20:
\* twenty times the quantile, which is a whole number
Quantile20(values, twentieths) ==
  LET s == SortAsc(values)
      n == Len(s)
      pos == (n - 1) * twentieths
      lo == pos \div QuantileScale + 1
      hi == IF lo < n THEN lo + 1 ELSE n
  IN  s[lo] * QuantileScale + (pos % QuantileScale) * (s[hi] - s[lo])

\* bins=[0, quantile(0.5), quantile(0.8), quantile(0.95), max()], each edge
\* times twenty
segment_bins(totals) ==
  << 0,
     Quantile20(totals, 10),
     Quantile20(totals, 16),
     Quantile20(totals, 19),
     Max(totals) * QuantileScale >>

SegmentLabels == << "Low Value", "Medium Value", "High Value", "VIP" >>

\* pd.cut raises ValueError unless the edges increase strictly ("bins must
\* increase monotonically", "Bin edges must be unique")
cut_raises(bins) == \E i \in 1..(Len(bins) - 1) : bins[i + 1] <= bins[i]

\* pd.cut(..., labels=..., include_lowest=True) for one value: the label of
\* the interval (edge i, edge i+1] that holds it, the lowest edge itself
\* counting for the first interval, null outside all intervals
cut_label(value20, bins) ==
  IF value20 < bins[1] \/ value20 > bins[Len(bins)] THEN None
  ELSE IF value20 = bins[1] THEN Some(SegmentLabels[1])
  ELSE Some(SegmentLabels[CHOOSE i \in 1..(Len(bins) - 1) :
                            bins[i] < value20 /\ value20 <= bins[i + 1]])

\* sort_values("total_spent", ascending=False): the position of row k in
\* the sorted frame, rows with equal totals keeping their order
SortedPosition(rows, k) ==
  1 + Cardinality({j \in 1..Len(rows) :
                     \/ rows[j].total_spent > rows[k].total_spent
                     \/ rows[j].total_spent = rows[k].total_spent /\ j < k})

\* The frame customer_totals with its ranks and segments, before it is
\* sorted
ranked_totals(totals, bins) ==
  LET n == Len(totals)
      by_total == [k \in 1..n |-> Some(totals[k].total_spent)]
      by_count == [k \in 1..n |-> Some(totals[k].transaction_count)]
      by_avg == [k \in 1..n |-> totals[k].avg_transaction]
  IN  [k \in 1..n |->
         [customer_id |-> totals[k].customer_id,
          total_spent |-> totals[k].total_spent,
          transaction_count |-> totals[k].transaction_count,
          avg_transaction |-> totals[k].avg_transaction,
          first_purchase |-> totals[k].first_purchase,
          last_purchase |-> totals[k].last_purchase,
          customer_lifetime_days |->
            (totals[k].last_purchase.tenths
               - totals[k].first_purchase.tenths) \div 10,
          rank_by_total_spending |-> dense_rank(by_total, k)[1],
          rank_by_frequency |-> dense_rank(by_count, k)[1],
          rank_by_avg_transaction |-> dense_rank(by_avg, k),
          customer_segment |->
            cut_label(totals[k].total_spent * QuantileScale, bins)]]

\* sort_values("total_spent", ascending=False).reset_index(drop=True)
sort_by_total(rows) ==
  [p \in 1..Len(rows) |->
     rows[CHOOSE k \in 1..Len(rows) : SortedPosition(rows, k) = p]]

\* rank_customers_by_total_value: whether pd.cut raises, and otherwise the
\* frame customer_rankings
rank_customers_by_total_value(transactions) ==
  LET totals == customer_totals(transactions)
      bins == segment_bins([k \in 1..Len(totals) |-> totals[k].total_spent])
  IN  IF cut_raises(bins)
        THEN [raised |-> TRUE, customer_rankings |-> << >>]
        ELSE [raised |-> FALSE,
              customer_rankings |-> sort_by_total(ranked_totals(totals, bins))]

\* ------------------------------------------------------------------------
\* The analyses of process_data on converted frames
\* ------------------------------------------------------------------------
\* Rows of the Transactions sheet: purchases of three customers in two
\* categories, a purchase of a product the Products sheet lacks, refunds
\* (negative amounts) and a row whose amount is null
TxPool ==
  { Transaction(Cust1, 2, "pA", Some(100)),
    Transaction(Cust1, 40, "pB", Some(50)),
    Transaction(Cust2, 2, "pA", Some(30)),
    Transaction(Cust2, 2, "pX", Some(30)),
    Transaction(Cust2, 40, "pA", Some(0 - 50)),
    Transaction(Cust3, 2, "pB", None),
    Transaction(Cust3, 2, "pA", Some(30)),
    Transaction(Cust3, 2, "pB", Some(0 - 50)) }

TxLists == UNION {[1..n -> TxPool] : n \in 1..MaxTransactions}

ProductsAB == << Product("pA", Some("A")), Product("pB", Some("B")) >>
ProductsA == << Product("pA", Some("A")) >>
ProductTables == {ProductsAB, ProductsA}

\* The frames are at hand, as after line 79 of process_data
InitAnalyses ==
  /\ GeoInit
  /\ dpc = "totals"
  /\ ParserIdle
  /\ DatesIdle
  /\ AnalysesIdle
  /\ CallIdle
  /\ transactions_df \in TxLists
  /\ products_df \in ProductTables

\* customer_category_totals = calculate_customer_category_totals(...)
CategoryTotals ==
  /\ dpc = "totals"
  /\ category_totals' =
       Some(customer_category_pivot(transactions_df, products_df))
  /\ dpc' = "top"
  /\ UNCHANGED << address_history, top_spenders, rankings, bundle >>
  /\ UNCHANGED << geoVars, callVars, parserVars, dateVars, frameVars >>

\* top_spenders_by_category = identify_top_spenders_by_category(...)
TopSpenders ==
  /\ dpc = "top"
  /\ top_spenders' = Some(identify_top_spenders_by_category(category_totals[1]))
  /\ dpc' = "rank"
  /\ UNCHANGED << address_history, category_totals, rankings, bundle >>
  /\ UNCHANGED << geoVars, callVars, parserVars, dateVars, frameVars >>

\* customer_rankings = rank_customers_by_total_value(transactions_df): the
\* ValueError of pd.cut is not caught
RankCustomers ==
  /\ dpc = "rank"
  /\ LET r == rank_customers_by_total_value(transactions_df)
     IN  /\ rankings' = IF r.raised THEN None ELSE Some(r.customer_rankings)
         /\ dpc' = IF r.raised THEN "raised" ELSE "return"
  /\ UNCHANGED << address_history, category_totals, top_spenders, bundle >>
  /\ UNCHANGED << geoVars, callVars, parserVars, dateVars, frameVars >>

NextAnalyses ==
  \/ CategoryTotals
  \/ TopSpenders
  \/ RankCustomers

SpecAnalyses == InitAnalyses /\ [][NextAnalyses]_vars

\* ------------------------------------------------------------------------
\* Properties of the analyses (specification SpecAnalyses)
\* ------------------------------------------------------------------------
\* The category the Products sheet gives a product code, None without one
CategoryOfCode(code) ==
  IF \E k \in 1..Len(products_df) : products_df[k].product_code = code
    THEN products_df[CHOOSE k \in 1..Len(products_df) :
                       products_df[k].product_code = code].category
    ELSE None

Categorised == {k \in 1..Len(transactions_df) :
                  CategoryOfCode(transactions_df[k].product_code) # None}

\* The sum of the amounts of a customer's transactions in a category
SpentIn(customer_id, category) ==
  Sum([k \in 1..Len(transactions_df) |->
         IF /\ transactions_df[k].customer_id = customer_id
            /\ CategoryOfCode(transactions_df[k].product_code) = Some(category)
           THEN transactions_df[k].amount
           ELSE None])

Elements(q) == {q[k] : k \in 1..Len(q)}

C18_TopSpenders ==
  top_spenders # None =>
    LET pivot == category_totals[1]
        top == top_spenders[1]
    IN  \A cat \in Elements(pivot.columns) :
          LET column == Column(pivot, cat)
              total == Sum(PlainValues(column))
          IN  /\ cat \in DOMAIN top <=> (\E k \in 1..Len(column) : column[k] > 0)
              /\ cat \in DOMAIN top =>
                   /\ \A k \in 1..Len(column) : column[k] <= top[cat].amount_spent
                   /\ \E k \in 1..Len(pivot.rows) :
                        /\ pivot.rows[k].customer_id = top[cat].customer_id
                        /\ pivot.rows[k].cells[cat] = top[cat].amount_spent
                   /\ top[cat].amount_spent <= total
                   /\ top[cat].percentage_of_category.num
                        = top[cat].amount_spent * 100
                   /\ top[cat].percentage_of_category.den = total
                   /\ total > 0
                   /\ 0 <= top[cat].percentage_of_category.num
                   /\ top[cat].percentage_of_category.num <= 100 * total

\* A column of ranking values and the column of the ranks computed for it
IsDenseRanking(values, ranks) ==
  LET ranked == {k \in 1..Len(values) : values[k] # None}
      distinct == {values[k][1] : k \in ranked}
  IN  /\ \A k \in 1..Len(values) : values[k] = None <=> ranks[k] = None
      /\ \A i, j \in ranked : values[i] = values[j] => ranks[i] = ranks[j]
      /\ \A i \in ranked :
           (\A j \in ranked : values[j][1] <= values[i][1]) => ranks[i] = Some(1)
      /\ \A i, j \in ranked :
           (/\ values[j][1] < values[i][1]
            /\ \A m \in ranked : ~(/\ values[j][1] < values[m][1]
                                   /\ values[m][1] < values[i][1]))
             => ranks[j][1] = ranks[i][1] + 1
      /\ {ranks[k][1] : k \in ranked} = 1..Cardinality(distinct)

\* C19: each of the three ranks is a dense descending rank of its own
\* column: equal values share a rank, the largest value has rank 1, the
\* next smaller distinct value has the next rank, and the ranks in use are
\* 1..k for k distinct values.  A customer without a counted amount has a
\* null avg_transaction and a null rank_by_avg_transaction.
C19_DenseRanks ==
  rankings # None =>
    LET rows == rankings[1]
        n == Len(rows)
    IN  /\ IsDenseRanking([k \in 1..n |-> Some(rows[k].total_spent)],
                          [k \in 1..n |-> Some(rows[k].rank_by_total_spending)])
        /\ IsDenseRanking([k \in 1..n |-> Some(rows[k].transaction_count)],
                          [k \in 1..n |-> Some(rows[k].rank_by_frequency)])
        /\ IsDenseRanking([k \in 1..n |-> rows[k].avg_transaction],
                          [k \in 1..n |-> rows[k].rank_by_avg_transaction])

\* Three customers, two of them with the same total and rank 2, whose
\* ranks by frequency differ from their ranks by total
C19_Witness ==
  /\ rankings # None
  /\ Len(rankings[1]) = 3
  /\ rankings[1][1].rank_by_total_spending = 1
  /\ rankings[1][2].rank_by_total_spending = 2
  /\ rankings[1][3].rank_by_total_spending = 2
  /\ rankings[1][2].total_spent = rankings[1][3].total_spent
  /\ \E k \in 1..3 :
       rankings[1][k].rank_by_frequency # rankings[1][k].rank_by_total_spending

\* The label of the claim's bins for a total: Low Value up to p50, Medium
\* Value up to p80, High Value up to p95, VIP up to the maximum
QuantileLabel(total, totals) ==
  IF total * 20 <= Quantile20(totals, 10) THEN "Low Value"
  ELSE IF total * 20 <= Quantile20(totals, 16) THEN "Medium Value"
  ELSE IF total * 20 <= Quantile20(totals, 19) THEN "High Value"
  ELSE "VIP"

\* C20: every customer's customer_segment is the label of the bin, among
\* those with edges p50, p80, p95 and the maximum of total_spent, that
\* holds the customer's total_spent.
C20_SegmentOfQuantileBin ==
  rankings # None =>
    LET rows == rankings[1]
        totals == [k \in 1..Len(rows) |-> rows[k].total_spent]
    IN  \A k \in 1..Len(rows) :
          rows[k].customer_segment
            = Some(QuantileLabel(rows[k].total_spent, totals))

\* C28: segmentation is total.  rank_customers_by_total_value raises for no
\* batch of transactions, and every customer of the returned frame has one
\* of the four labels.
C28_SegmentationTotal ==
  /\ dpc # "raised"
  /\ rankings # None =>
       \A k \in 1..Len(rankings[1]) :
         \E i \in 1..Len(SegmentLabels) :
           rankings[1][k].customer_segment = Some(SegmentLabels[i])

\* ------------------------------------------------------------------------
\* process_data
\* ------------------------------------------------------------------------
\* parse_customer_data as a function of the whole column
RECURSIVE parse_customer_data(_)
parse_customer_data(cells) ==
  IF cells = << >> THEN << >>
  ELSE parse_row(Head(cells)).appended \o parse_customer_data(Tail(cells))

\* pd.to_datetime(column, origin="1899-12-30", unit="D"): None stands for
\* the exception raised when the column is not numeric ("it must be numeric
\* with a unit specified") or a date leaves the 64-bit range; a null cell
\* gives NaT
to_datetime_origin(cells) ==
  IF \E k \in 1..Len(cells) : cells[k].type \notin {"int", "float"}
    THEN None
  ELSE IF \E k \in 1..Len(cells) :
            ~isna(cells[k]) /\ epoch_plus_days(cells[k].num) = None
    THEN None
  ELSE Some([k \in 1..Len(cells) |->
               IF isna(cells[k]) THEN NaT
               ELSE epoch_plus_days(cells[k].num)[1]])

\* pd.to_datetime(column) on a column of texts: None stands for the
\* exception raised when one text is no date
to_datetime_column(texts) ==
  IF \E k \in 1..Len(texts) : to_datetime_text(texts[k]) = None
    THEN None
    ELSE Some([k \in 1..Len(texts) |-> to_datetime_text(texts[k])[1]])

\* pd.to_numeric(cell, errors="coerce"), in whole dollars: a text that is
\* no number and a null cell give null
to_numeric_coerce(cell) ==
  IF isna(cell) THEN None
  ELSE IF cell.type = "str"
    THEN LET f == float_of_str(cell.text)
         IN  IF f = None \/ f[1].kind # "finite" THEN None
             ELSE Some(f[1].tenths \div 10)
  ELSE IF cell.num.kind # "finite" THEN None
  ELSE Some(cell.num.tenths \div 10)

\* Lines 67-74 of process_data: the two frames with their date columns
\* converted, or the column whose conversion raises.  customers_df has no
\* column at all when no customer was parsed, and customers_df["created_date"]
\* then raises KeyError.
convert_date_columns(transactions, customer_rows) ==
  LET dates == to_datetime_origin([k \in 1..Len(transactions) |->
                                     transactions[k].transaction_date])
      dobs == to_datetime_column([k \in 1..Len(customer_rows) |->
                                    customer_rows[k].dob])
  IN  IF dates = None
        THEN [raised |-> "transaction_date", transactions |-> transactions,
              customers |-> customer_rows]
      ELSE IF customer_rows = << >>
        THEN [raised |-> "KeyError", transactions |-> transactions,
              customers |-> customer_rows]
      ELSE IF dobs = None
        THEN [raised |-> "dob", transactions |-> transactions,
              customers |-> customer_rows]
      ELSE [raised |-> "",
            transactions |->
              [k \in 1..Len(transactions) |->
                 [transactions[k] EXCEPT !.transaction_date = dates[1][k]]],
            customers |->
              [k \in 1..Len(customer_rows) |->
                 [customer_rows[k] EXCEPT
                    !.created_date =
                      convert_excel_date(PyFloat(customer_rows[k].created_date)).value,
                    !.dob = dobs[1][k]]]]

\* detect_address_changes, the frame address_history_df: one record per row
\* of customers_df, for customers whose created_date is a Timestamp.
\* Timedelta.days is the whole number of days, rounded down.
address_history_df(customer_rows, transactions) ==
  [k \in 1..Len(customer_rows) |->
     LET customer == customer_rows[k]
         own == SelectSeq(transactions,
                          LAMBDA t : t.customer_id = customer.customer_id)
         last_transaction == LastDate(own)
     IN  [customer_id |-> customer.customer_id,
          address |-> customer.address,
          effective_from |-> customer.created_date,
          effective_to |-> IF last_transaction.kind = "Timestamp"
                             THEN last_transaction
                             ELSE customer.created_date,
          is_current |-> TRUE,
          change_detected |-> FALSE,
          days_active |-> IF last_transaction.kind = "Timestamp"
                            THEN (last_transaction.tenths
                                    - customer.created_date.tenths) \div 10
                            ELSE 0]]

\* The entry "summary_stats" of the returned dictionary.
\* customers_with_address_changes is len() of the dictionary that
\* detect_address_changes returns, which has two keys.
summary_stats(customer_rows, transactions, products) ==
  [total_customers |-> Len(customer_rows),
   total_transactions |-> Len(transactions),
   total_revenue |-> Sum(Amounts(transactions)),
   first_transaction |-> FirstDate(transactions),
   last_transaction |-> LastDate(transactions),
   customers_with_address_changes |-> AddressHistoryKeys,
   product_categories |->
     Cardinality({products[k].category :
                    k \in {i \in 1..Len(products) : products[i].category # None}})]

\* A row of the Transactions sheet as read: the cells of transaction_date
\* and amount are not converted yet
RawTransaction(customer_id, date_cell, product_code, amount_cell) ==
  [customer_id |-> customer_id,
   transaction_date |-> date_cell,
   product_code |-> product_code,
   amount |-> amount_cell]

\* {c1_n_m_1990-05-17_e_2}: customer c1, created on serial 2
DatedRow ==
  Str(<< "{", "c", "1", "_", "n", "_", "m", "_", "1", "9", "9", "0", "-",
         "0", "5", "-", "1", "7", "_", "e", "_", "2", "}" >>)

\* {c2_n_m_1985-01-02_e_40}: customer c2, created on serial 40
LaterRow ==
  Str(<< "{", "c", "2", "_", "n", "_", "m", "_", "1", "9", "8", "5", "-",
         "0", "1", "-", "0", "2", "_", "e", "_", "4", "0", "}" >>)

\* {c3_n_m_d_e_2}: customer c3, whose dob is no date
BadDobRow ==
  Str(<< "{", "c", "3", "_", "n", "_", "m", "_", "d", "_", "e", "_", "2",
         "}" >>)

\* Rows of the sheets of an uploaded workbook
CustomerRowPool == {DatedRow, LaterRow, BadDobRow}

CustomerColumns == UNION {[1..n -> CustomerRowPool] : n \in 0..MaxCustomers}

RawTxPool ==
  { RawTransaction(Cust1, PyInt(50), "pA", PyInt(100)),
    RawTransaction(Cust1, PyInt(1), "pB", PyInt(50)),
    RawTransaction(Cust2, PyInt(50), "pX", PyInt(30)),
    RawTransaction(Cust2, PyFloat(FloatNaN), "pA", Str(NotADateText)),
    RawTransaction(Cust2, Str(NotADateText), "pA", PyInt(30)) }

RawTxLists == UNION {[1..n -> RawTxPool] : n \in 1..MaxTransactions}

\* def process_data(file_path): the names a call can bind
Parameters == {"file_path"}

\* The keyword arguments of the calls: process_data(file_path), and
\* process_data(file_path, use_geolocation=True) of the three download routes
KeywordArguments == {{}, {"use_geolocation"}}

\* Python binds the arguments before the body runs: a keyword that names no
\* parameter raises TypeError
BindRaises(keywords) == keywords \ Parameters # {}

\* process_data is called on a workbook with these three sheets
InitPipeline ==
  /\ GeoInit
  /\ dpc = "call"
  /\ kwargs \in KeywordArguments
  /\ validation = None
  /\ raw_data \in CustomerColumns
  /\ row = 0
  /\ customers = << >>
  /\ customers_df = None
  /\ DatesIdle
  /\ transactions_df \in RawTxLists
  /\ products_df = ProductsAB
  /\ AnalysesIdle

\* The call binds its arguments and the body starts, or TypeError leaves the
\* call
CallProcessData ==
  /\ dpc = "call"
  /\ dpc' = IF BindRaises(kwargs) THEN "raised_call" ELSE "process"
  /\ UNCHANGED << geoVars, callVars, parserVars, dateVars, frameVars,
                  analysisVars >>

\* customers_df = parse_customer_data(customers_raw.iloc[:, 0])
ParseCustomers ==
  /\ dpc = "process"
  /\ customers_df' = Some(parse_customer_data(raw_data))
  /\ dpc' = "dates"
  /\ UNCHANGED << raw_data, row, customers >>
  /\ UNCHANGED << geoVars, callVars, dateVars, frameVars, analysisVars >>

\* Lines 67-74: the date columns are converted; an exception of a
\* conversion leaves process_data
ConvertDates ==
  /\ dpc = "dates"
  /\ LET r == convert_date_columns(transactions_df, customers_df[1])
     IN  /\ transactions_df' = r.transactions
         /\ customers_df' = Some(r.customers)
         /\ dpc' = CASE r.raised = "" -> "numeric"
                     [] r.raised = "KeyError" -> "raised"
                     [] OTHER -> "raised_dates"
  /\ UNCHANGED << raw_data, row, customers, products_df >>
  /\ UNCHANGED << geoVars, callVars, dateVars, analysisVars >>

\* transactions_df["amount"] = pd.to_numeric(..., errors="coerce")
CoerceAmounts ==
  /\ dpc = "numeric"
  /\ transactions_df' =
       [k \in 1..Len(transactions_df) |->
          [transactions_df[k] EXCEPT !.amount = to_numeric_coerce(@)]]
  /\ dpc' = "history"
  /\ UNCHANGED products_df
  /\ UNCHANGED << geoVars, callVars, parserVars, dateVars, analysisVars >>

\* address_history = detect_address_changes(customers_df, transactions_df)
AddressHistory ==
  /\ dpc = "history"
  /\ address_history' = Some(address_history_df(customers_df[1], transactions_df))
  /\ dpc' = "totals"
  /\ UNCHANGED << category_totals, top_spenders, rankings, bundle >>
  /\ UNCHANGED << geoVars, callVars, parserVars, dateVars, frameVars >>

\* return {...}
ReturnBundle ==
  /\ dpc = "return"
  /\ address_history # None
  /\ bundle' = Some([summary_stats |->
                       summary_stats(customers_df[1], transactions_df,
                                     products_df)])
  /\ dpc' = "done"
  /\ UNCHANGED << address_history, category_totals, top_spenders, rankings >>
  /\ UNCHANGED << geoVars, callVars, parserVars, dateVars, frameVars >>

NextPipeline ==
  \/ CallProcessData
  \/ ParseCustomers
  \/ ConvertDates
  \/ CoerceAmounts
  \/ AddressHistory
  \/ CategoryTotals
  \/ TopSpenders
  \/ RankCustomers
  \/ ReturnBundle

SpecPipeline == InitPipeline /\ [][NextPipeline]_vars

\* ------------------------------------------------------------------------
\* Properties of process_data (specification SpecPipeline)
\* ------------------------------------------------------------------------
\* The date columns have been converted
DatesConverted ==
  dpc \in {"numeric", "history", "totals", "top", "rank", "return", "done"}

\* C15: date conversion in process_data is total.  No exception leaves
\* process_data because of a date, and once the columns are converted a
\* dob or a transaction_date is a Timestamp or the null date.
C15_DateConversionTotal ==
  /\ dpc # "raised_dates"
  /\ DatesConverted =>
       /\ \A k \in 1..Len(customers_df[1]) :
            customers_df[1][k].dob.kind \in {"Timestamp", "NaT"}
       /\ \A k \in 1..Len(transactions_df) :
            transactions_df[k].transaction_date.kind \in {"Timestamp", "NaT"}

\* The amounts of the transactions whose product code the Products sheet
\* lacks
UnknownProduct(t) ==
  \A k \in 1..Len(products_df) : products_df[k].product_code # t.product_code

\* C17: a transaction whose product code is not in the Products sheet
\* counts in total_revenue of the summary, but in no category column of the
\* pivot and not in Total_Spending: total_revenue exceeds the sum of all
\* category cells, and the sum of Total_Spending, by exactly the amounts of
\* those transactions.
C17_UnknownProductExcluded ==
  dpc = "done" =>
    LET pivot == category_totals[1]
        unknown == Sum(Amounts(SelectSeq(transactions_df, UnknownProduct)))
        cells == Sum([k \in 1..Len(pivot.rows) |->
                        Some(Sum([j \in 1..Len(pivot.columns) |->
                                    Some(pivot.rows[k].cells[pivot.columns[j]])]))])
        spending == Sum([k \in 1..Len(pivot.rows) |->
                           Some(pivot.rows[k].Total_Spending)])
    IN  /\ bundle[1].summary_stats.total_revenue = cells + unknown
        /\ bundle[1].summary_stats.total_revenue = spending + unknown
        /\ bundle[1].summary_stats.total_revenue = Sum(Amounts(transactions_df))

\* A returned bundle for a workbook with a purchase of 30 of the unknown
\* product pX: the revenue is 30 more than the pivot accounts for
C17_Witness ==
  /\ dpc = "done"
  /\ \E k \in 1..Len(transactions_df) :
       /\ transactions_df[k].product_code = "pX"
       /\ transactions_df[k].amount = Some(30)
  /\ category_totals[1].rows # << >>
  /\ bundle[1].summary_stats.total_revenue
       = 30 + Sum([k \in 1..Len(category_totals[1].rows) |->
                     Some(category_totals[1].rows[k].Total_Spending)])

\* The call of process_data passes the geolocation flag
FlagPassed == "use_geolocation" \in kwargs

\* C21: process_data takes the geolocation flag.  A call that passes
\* use_geolocation completes with the bundle and not with an error, its
\* summary then reports geocoding_success_rate, and no address is geocoded
\* when the flag is not passed.
C21_ProcessAcceptsFlag ==
  /\ FlagPassed =>
       /\ dpc # "raised_call"
       /\ dpc = "done" =>
            "geocoding_success_rate" \in DOMAIN bundle[1].summary_stats
  /\ ~FlagPassed => nCalls = 0

\* The transactions of the customer of an address-history record
TransactionsOf(record) ==
  SelectSeq(transactions_df, LAMBDA t : t.customer_id = record.customer_id)

\* C25: in every address-history record days_active is
\* max(0, effective_to - effective_from in days): it is never negative, also
\* when the last transaction is earlier than created_date, and it is 0 with
\* effective_to = effective_from for a customer without transaction.
C25_DaysActiveClamped ==
  address_history # None =>
    \A k \in 1..Len(address_history[1]) :
      LET record == address_history[1][k]
          days == (record.effective_to.tenths - record.effective_from.tenths)
                    \div 10
      IN  /\ record.days_active = IF days > 0 THEN days ELSE 0
          /\ record.days_active >= 0
          /\ TransactionsOf(record) = << >> =>
               /\ record.days_active = 0
               /\ record.effective_to = record.effective_from

\* ========================================================================
\* Part 3: upload validation (app.py)
\* ========================================================================
\* app.py, parse_customer_data: if len(parts) >= 6
AppEnoughPartsSeven(parts) == Len(parts) >= 7

AppEnoughParts(parts) == Len(parts) >= 6

\* app.py, parse_customer_data: except (ValueError, IndexError)
AppParserHandler == {"ValueError", "IndexError"}

\* app.py, parse_customer_data: the dictionary customer_data
app_customer_data(parts, created_date) ==
  [customer_id |-> parts[1],
   name |-> parts[2],
   email |-> parts[3],
   dob |-> parts[4],
   address |-> parts[5],
   created_date |-> created_date]

\* app.py, parse_customer_data: one round of "for row in raw_data"
app_parse_row(cell) ==
  IF isna(cell) \/ cell.type # "str"
    THEN [appended |-> << >>, raised |-> FALSE]
  ELSE
    LET cleaned == StripChars(cell.text, {"{", "}"})
        parts == Split(cleaned, "_")
    IN  IF AppEnoughParts(parts)
          THEN LET created_date == float_of_str(parts[6])
               IN  IF created_date # None
                     THEN [appended |->
                             << app_customer_data(parts, created_date[1]) >>,
                           raised |-> FALSE]
                     ELSE [appended |-> << >>,
                           raised |-> "ValueError" \notin AppParserHandler]
          ELSE [appended |-> << >>, raised |-> FALSE]

\* app.py, parse_customer_data: the list `customers` after the loop over
\* the cells
RECURSIVE app_customers(_)
app_customers(cells) ==
  IF cells = << >> THEN << >>
  ELSE app_parse_row(Head(cells)).appended \o app_customers(Tail(cells))

\* app.py, parse_customer_data as a function of the whole column: the frame
\* it returns, or the exception that leaves the loop
app_parse_customer_data(cells) ==
  IF \E k \in 1..Len(cells) : app_parse_row(cells[k]).raised
    THEN [customers |-> << >>, raised |-> TRUE]
    ELSE [customers |-> app_customers(cells), raised |-> FALSE]

\* pd.api.types.is_numeric_dtype(column): every cell is a number (a null
\* cell of a numeric column is the float nan)
is_numeric_dtype(cells) ==
  \A k \in 1..Len(cells) : cells[k].type \in {"int", "float"}

Rejected(message) ==
  [ok |-> FALSE, message |-> message, customers_df |-> << >>,
   customers_count |-> 0]

\* validate_excel_structure after the Customers column has been parsed: the
\* checks on the Customers sheet and on the data of the other two sheets.
\* An exception inside is turned into a rejection by the "except Exception"
\* around the body.
validation_result(parsed, customers_raw, transactions, products) ==
  IF customers_raw = << >>
    THEN Rejected("Customers sheet is empty")
  ELSE IF parsed.raised
    THEN Rejected("Error reading file")
  ELSE IF parsed.customers = << >>
    THEN Rejected("Could not parse customer data from the provided format")
  ELSE IF Len(transactions) = 0
    THEN Rejected("Transactions sheet has no data")
  ELSE IF Len(products) = 0
    THEN Rejected("Products sheet has no data")
  ELSE IF ~is_numeric_dtype([k \in 1..Len(transactions) |->
                               transactions[k].amount])
    THEN Rejected("Transaction amount column must be numeric")
  ELSE [ok |-> TRUE, message |-> "",
        customers_df |-> parsed.customers,
        customers_count |-> Len(parsed.customers)]

\* validate_excel_structure on a workbook that has the three sheets with
\* their required columns and a numeric unit_price
validate_excel_structure(customers_raw, transactions, products) ==
  validation_result(app_parse_customer_data(customers_raw), customers_raw,
                    transactions, products)

\* The Transactions and Products sheets of an uploaded workbook: without
\* rows, with a numeric amount, with a text in the amount column
UploadTransactions ==
  { << >>,
    << RawTransaction(Cust1, PyInt(50), "pA", PyInt(100)) >>,
    << RawTransaction(Cust2, PyFloat(FloatNaN), "pA", Str(NotADateText)) >> }

UploadProducts == {<< >>, ProductsAB}

\* A workbook has been uploaded
InitUpload ==
  /\ GeoInit
  /\ dpc = "upload"
  /\ raw_data \in RawColumns
  /\ row = 0
  /\ customers = << >>
  /\ customers_df = None
  /\ DatesIdle
  /\ transactions_df \in UploadTransactions
  /\ products_df \in UploadProducts
  /\ AnalysesIdle
  /\ CallIdle

\* is_valid, result = validate_excel_structure(file_path): an accepted
\* workbook is kept for process_data
ValidateUpload ==
  /\ dpc = "upload"
  /\ \E result \in {validate_excel_structure(raw_data, transactions_df,
                                                products_df)} :
       /\ validation' = Some(result)
       /\ dpc' = IF result.ok THEN "process" ELSE "rejected"
  /\ UNCHANGED kwargs
  /\ UNCHANGED << geoVars, parserVars, dateVars, frameVars, analysisVars >>

NextUpload ==
  \/ ValidateUpload
  \/ ParseCustomers

SpecUpload == InitUpload /\ [][NextUpload]_vars

\* ------------------------------------------------------------------------
\* Properties of the two parser copies (specification SpecUpload)
\* ------------------------------------------------------------------------
\* C29: the parser of app.py and the parser of data_processing.py return
\* the same records in the same order for every column: the customers that
\* process_data parses from an accepted workbook are the customers that
\* validation parsed and counted, and validation rejects a column exactly
\* when the pipeline's parser finds no customer in it.
C29_ParserCopiesAgree ==
  /\ validation # None =>
       \A uploaded \in {app_parse_customer_data(raw_data)} :
         \A processed \in {parse_customer_data(raw_data)} :
           /\ uploaded.customers = processed
           /\ ~uploaded.raised
           /\ validation[1].ok => processed # << >>
  /\ dpc = "dates" =>
       /\ validation[1].ok
       /\ customers_df = Some(validation[1].customers_df)
       /\ Len(customers_df[1]) = validation[1].customers_count

\* An accepted workbook whose column has a seven-part cell, a cell that is
\* skipped and a six-part cell: both copies found the same two customers
C29_Witness ==
  /\ dpc = "dates"
  /\ raw_data = << ExtraPartsRow, BadSerialRow, OtherRow >>
  /\ validation[1].ok
  /\ validation[1].customers_count = 2
  /\ Len(customers_df[1]) = 2
  /\ customers_df[1][1].customer_id = << "a" >>
  /\ customers_df[1][2].customer_id = << "k" >>

====
